---- MODULE Spec2Model ----
(***************************************************************************)
(* viirs-watcher: the group tracker of viirs-watcher.go (Watcher.Watch,    *)
(* FileGroup.AnyChanged, Process) and the pipeline engine of               *)
(* pipeline/pipeline.go (Variable.Eval, Step.EvalVariables, Step.Exec with *)
(* its command tokenizer, Pipeline.Exec).                                  *)
(*                                                                         *)
(* Text is a sequence of one-character strings, so that prefixes, splits,  *)
(* extensions and the tokenizer are computed character by character.       *)
(***************************************************************************)
EXTENDS Integers, Sequences, FiniteSets, TLC

VARIABLES
  \* ---- command tokenizer of Step.Exec, one rune per step
  tokIn,        \* the rendered command text (buf)
  tokPos,       \* runes read so far
  lex,          \* [acc, split, state]: the accumulator, the tokens, the lexer state
  tokPc,        \* "idle" | "loop" | "done"
  closedQuote,  \* history: the rune just read was a closing quote
  \* ---- the watcher (viirs-watcher.go)
  fs,           \* the watched tree: file name -> [size, mtime] or NoFile
  born,         \* history: file name -> the mtime it was created with
  quiet,        \* history: walks started since the tree last changed (0, 1, 2 = two or more)
  writes,       \* the writes and removals the environment has made so far
  found,        \* w.found: id -> FileGroup
  ready,        \* the keys of w.ready
  pending,      \* files the current walk has still to visit
  watching,     \* Watch() is in its loop (it has not returned)
  runs,         \* log: one record per call of Process, in call order
  atClaim,      \* history: id -> the group as it was when it was claimed
  fresh,        \* history: the files whose size/mtime were recorded in the current round
  \* ---- one call of FileGroup.AnyChanged
  acGroup,      \* the group's Files
  acLive,       \* what os.Stat returns for each of them
  acRes,        \* "none" | "changed" | "unchanged" | "err"
  \* ---- one run of Pipeline.Exec
  pl,           \* the prepared pipeline: [Variables, Steps]
  ctx,          \* the shared context map handed to Exec
  ppc,          \* "idle" | "init" | "steps" | "done"
  stepIdx,      \* s of `for s := range p.Steps`
  perr,         \* what Exec returns: "nil" | "eval" | "render" | "exit"
  entered,      \* log: one record per Step.Exec call, in call order
  \* ---- startup (main, readConfig)
  mainPc,       \* "idle" | "start" | "configured" | "watching" | "exited"
  cfgIn,        \* what reading the configuration runs into: "nil" | "noargs" | "open" | "yaml" | "period"
  rcErr,        \* what readConfig returned
  prepErr,      \* what pipeline.Prepare() returned
  \* ---- one call of Variable.Eval
  evVar,        \* the variable: [Name, Value]
  evRes,        \* what Eval returned, once it has: <<[err, val]>>
  \* ---- one call of Process (hasNight, then the pipeline)
  prGroup,      \* the claimed group handed to Process
  prProbe,      \* what h5dump and the xpath library answer for the first ranged file
  prRun,        \* what the call did, once it has returned: <<run record>>
  \* ---- the directory registry of the older variant (src/unnamed/part_001)
  made,         \* how many of Serve's four make() assignments have run (watched, chput, chremove, chhas)
  srvPc,        \* Serve: "make" | "select" | "put" | "remove" | "has" | "reply"
  srvArg,       \* the name Serve has just received
  srvOk,        \* the ok Serve is about to send on reqres.res
  watched,      \* the keys of w.watched
  mt,           \* entry name -> modification time of its subdirectory
  checkTime,    \* main: checkTime
  pollPc,       \* main: "idle" | "scan" | "has_send" | "has_recv" | "put_send" | "spawn"
  listing,      \* watchRoot: the entries of the listing still to look at
  maxTime,      \* watchRoot: maxTime
  cur,          \* watchRoot: subdir of the entry at hand
  curM,         \* watchRoot: subinfo.ModTime() of the entry at hand
  pollCh,       \* the channel operand main evaluated for its pending send
  wst,          \* subdir -> [run, rem, stuck]: its watcher goroutines that run, that are in Remove, that are in Remove on a nil channel
  regHist,      \* history: subdir -> it was Put and not since Removed
  lastHas       \* history: the last return of Has: <<[s, ok, expect]>>

tokVars == <<tokIn, tokPos, lex, tokPc, closedQuote>>
pipeVars == <<pl, ctx, ppc, stepIdx, perr, entered>>
watchVars == <<fs, born, quiet, writes, found, ready, pending, watching, runs, atClaim, fresh>>
acVars == <<acGroup, acLive, acRes>>
bootVars == <<mainPc, cfgIn, rcErr, prepErr>>

evalVars == <<evVar, evRes>>

gateVars == <<prGroup, prProbe, prRun>>

regVars == <<made, srvPc, srvArg, srvOk, watched, mt, checkTime, pollPc, listing, maxTime, cur, curM, pollCh, wst, regHist, lastHas>>

vars == <<tokIn, tokPos, lex, tokPc, closedQuote, pl, ctx, ppc, stepIdx, perr, entered,
          fs, born, quiet, writes, found, ready, pending, watching, runs, atClaim, fresh,
          acGroup, acLive, acRes,
          mainPc, cfgIn, rcErr, prepErr,
          evVar, evRes,
          prGroup, prProbe, prRun,
          made, srvPc, srvArg, srvOk, watched, mt, checkTime, pollPc, listing, maxTime, cur, curM, pollCh, wst, regHist, lastHas>>

(***************************************************************************)
(* Text helpers                                                            *)
(***************************************************************************)
RECURSIVE Concat(_)
Concat(ss) == IF ss = <<>> THEN <<>> ELSE Head(ss) \o Concat(Tail(ss))

\* All sequences over S of length at most n.
SeqsUpTo(S, n) == UNION {[1..k -> S] : k \in 0..n}

Max(S) == CHOOSE x \in S : \A y \in S : y <= x

\* strings.HasPrefix(s, p)
HasPrefix(s, p) == Len(p) <= Len(s) /\ SubSeq(s, 1, Len(p)) = p

\* strings.Split(s, sep) for a one-character sep: the last field, then the rest.
RECURSIVE Split(_, _)
SplitAt(s, sep, cuts) ==
  IF cuts = {} THEN <<s>>
  ELSE Split(SubSeq(s, 1, Max(cuts) - 1), sep) \o <<SubSeq(s, Max(cuts) + 1, Len(s))>>
Split(s, sep) == SplitAt(s, sep, {i \in 1..Len(s) : s[i] = sep})

\* strings.Join(parts, sep)
RECURSIVE Join(_, _)
Join(parts, sep) ==
  IF parts = <<>> THEN <<>>
  ELSE IF Len(parts) = 1 THEN parts[1]
  ELSE parts[1] \o <<sep>> \o Join(Tail(parts), sep)

\* filepath.Ext(path): the suffix from the last dot of the last path element.
ExtFrom(s, dots) == IF dots = {} THEN <<>> ELSE SubSeq(s, Max(dots), Len(s))
Ext(s) ==
  ExtFrom(s, {i \in 1..Len(s) : s[i] = "." /\ \A j \in i..Len(s) : s[j] # "/"})

\* strings.TrimSuffix(s, suffix)
TrimSuffix(s, suffix) ==
  IF Len(suffix) <= Len(s) /\ SubSeq(s, Len(s) - Len(suffix) + 1, Len(s)) = suffix
  THEN SubSeq(s, 1, Len(s) - Len(suffix))
  ELSE s

(***************************************************************************)
(* Values and templates (pipeline.go, Variable)                            *)
(***************************************************************************)
BoolV(b) == [t |-> "bool", v |-> b]
IntV(n) == [t |-> "int", v |-> n]
FloatV(s) == [t |-> "float", v |-> s]
StrV(s) == [t |-> "str", v |-> s]

\* A compiled template is a sequence of parts: literal text, a ((.Key)) action,
\* or a ((.Key.Field)) action, which fails to execute on a scalar or missing key.
TextP(s) == [k |-> "text", s |-> s]
RefP(key) == [k |-> "ref", key |-> key]
BadP == [k |-> "bad"]

\* Variable.Value: a non-string literal has no expression (Prepare returns
\* before compiling); a string is compiled into a template.
Lit(val) == [str |-> FALSE, val |-> val]
Tmpl(parts) == [str |-> TRUE, parts |-> parts]
Var(name, value) == [Name |-> name, Value |-> value]

Digit(d) == CASE d = 0 -> "0" [] d = 1 -> "1" [] d = 2 -> "2" [] d = 3 -> "3"
              [] d = 4 -> "4" [] d = 5 -> "5" [] d = 6 -> "6" [] d = 7 -> "7"
              [] d = 8 -> "8" [] d = 9 -> "9"
Digits == {"0", "1", "2", "3", "4", "5", "6", "7", "8", "9"}
DigitVal(c) == CHOOSE d \in 0..9 : Digit(d) = c

RECURSIVE NatText(_)
NatText(n) == IF n < 10 THEN <<Digit(n)>> ELSE NatText(n \div 10) \o <<Digit(n % 10)>>

\* How the template prints a value of the context (fmt's default format).
Show(val) ==
  CASE val.t = "bool" -> IF val.v THEN <<"t", "r", "u", "e">> ELSE <<"f", "a", "l", "s", "e">>
    [] val.t = "int" -> IF val.v < 0 THEN <<"-">> \o NatText(-val.v) ELSE NatText(val.v)
    [] OTHER -> val.v

NoValue == <<"<", "n", "o", " ", "v", "a", "l", "u", "e", ">">>

\* One part of a template appended in front of the rest's output.
RenderPart(p, rest, c) ==
  IF p.k = "bad" \/ rest.err THEN [err |-> TRUE, out |-> <<>>]
  ELSE IF p.k = "text" THEN [err |-> FALSE, out |-> p.s \o rest.out]
  ELSE [err |-> FALSE,
        out |-> (IF p.key \in DOMAIN c THEN Show(c[p.key]) ELSE NoValue) \o rest.out]

\* expression.Execute(&bb, ctx): [err, out].
RECURSIVE Render(_, _)
Render(parts, c) ==
  IF parts = <<>> THEN [err |-> FALSE, out |-> <<>>]
  ELSE RenderPart(Head(parts), Render(Tail(parts), c), c)

\* strconv.ParseBool
BoolTrueTexts == {<<"1">>, <<"t">>, <<"T">>, <<"T", "R", "U", "E">>,
                  <<"t", "r", "u", "e">>, <<"T", "r", "u", "e">>}
BoolFalseTexts == {<<"0">>, <<"f">>, <<"F">>, <<"F", "A", "L", "S", "E">>,
                   <<"f", "a", "l", "s", "e">>, <<"F", "a", "l", "s", "e">>}
IsBoolText(s) == s \in BoolTrueTexts \cup BoolFalseTexts

AllDigits(s) == Len(s) > 0 /\ \A i \in 1..Len(s) : s[i] \in Digits
Unsigned(s) == IF Len(s) > 0 /\ s[1] \in {"+", "-"} THEN Tail(s) ELSE s

RECURSIVE NatOf(_)
NatOf(s) == IF s = <<>> THEN 0 ELSE 10 * NatOf(SubSeq(s, 1, Len(s) - 1)) + DigitVal(s[Len(s)])

\* strconv.ParseInt(str, 10, 64): an optional sign and decimal digits, within
\* the signed 64-bit range (compared digit by digit, leading zeros dropped).
RECURSIVE StripZeros(_)
StripZeros(s) == IF Len(s) > 1 /\ s[1] = "0" THEN StripZeros(Tail(s)) ELSE s
RECURSIVE LeqDigits(_, _)
LeqDigits(a, b) ==
  IF a = <<>> THEN TRUE
  ELSE IF DigitVal(Head(a)) # DigitVal(Head(b)) THEN DigitVal(Head(a)) < DigitVal(Head(b))
  ELSE LeqDigits(Tail(a), Tail(b))
MaxInt64Text ==
  <<"9", "2", "2", "3", "3", "7", "2", "0", "3", "6", "8", "5", "4", "7", "7", "5", "8", "0", "7">>
MinInt64Text ==
  <<"9", "2", "2", "3", "3", "7", "2", "0", "3", "6", "8", "5", "4", "7", "7", "5", "8", "0", "8">>
InInt64(d, lim) == Len(d) < Len(lim) \/ (Len(d) = Len(lim) /\ LeqDigits(d, lim))
IsIntText(s) ==
  /\ AllDigits(Unsigned(s))
  /\ InInt64(StripZeros(Unsigned(s)), IF s[1] = "-" THEN MinInt64Text ELSE MaxInt64Text)
IntOf(s) == IF s[1] = "-" THEN -NatOf(Unsigned(s)) ELSE NatOf(Unsigned(s))

\* strconv.ParseFloat(str, 64) on decimal text: digits with at most one point and
\* at least one digit, an optional exponent; or inf, infinity, nan in any case.
Lower(c) == CASE c = "I" -> "i" [] c = "N" -> "n" [] c = "F" -> "f" [] c = "A" -> "a"
              [] c = "T" -> "t" [] c = "Y" -> "y" [] c = "E" -> "e" [] OTHER -> c
LowerText(s) == [i \in 1..Len(s) |-> Lower(s[i])]
IsMantissa(s) ==
  /\ \A i \in 1..Len(s) : s[i] \in Digits \cup {"."}
  /\ Cardinality({i \in 1..Len(s) : s[i] = "."}) <= 1
  /\ \E i \in 1..Len(s) : s[i] \in Digits
IsFloatLower(u) ==
  \/ u \in {<<"i", "n", "f">>, <<"i", "n", "f", "i", "n", "i", "t", "y">>}
  \/ IsMantissa(u)
  \/ \E i \in {j \in 1..Len(u) : u[j] = "e"} :
       /\ IsMantissa(SubSeq(u, 1, i - 1))
       /\ AllDigits(Unsigned(SubSeq(u, i + 1, Len(u))))
IsFloatText(s) ==
  \/ LowerText(s) = <<"n", "a", "n">>
  \/ IsFloatLower(LowerText(Unsigned(s)))

\* (mutation: the integer parse is tried before the boolean parse)
Coerce_IntFirst(str) ==
  IF IsIntText(str) THEN IntV(IntOf(str))
  ELSE IF IsBoolText(str) THEN BoolV(str \in BoolTrueTexts)
  ELSE IF IsFloatText(str) THEN FloatV(str)
  ELSE StrV(str)

\* The coercion of the rendered text: ParseBool, then ParseInt, then ParseFloat.
Coerce(str) ==
  IF IsBoolText(str) THEN BoolV(str \in BoolTrueTexts)
  ELSE IF IsIntText(str) THEN IntV(IntOf(str))
  ELSE IF IsFloatText(str) THEN FloatV(str)
  ELSE StrV(str)

EvalRendered(r) ==
  IF r.err THEN [err |-> TRUE, val |-> StrV(<<>>)] ELSE [err |-> FALSE, val |-> Coerce(r.out)]

\* Variable.Eval(ctx): [err, val].
Eval(v, c) ==
  IF ~v.Value.str THEN [err |-> FALSE, val |-> v.Value.val]
  ELSE EvalRendered(Render(v.Value.parts, c))

\* m[k] = v on a Go map.
Put(m, k, v) == [x \in DOMAIN m \cup {k} |-> IF x = k THEN v ELSE m[x]]

EmptyMap == [x \in {} |-> 0]

KeyId == <<"I", "d">>

(***************************************************************************)
(* The command tokenizer (pipeline.go, Step.Exec)                          *)
(***************************************************************************)
DEFAULT == 0
IN_SQ == 1
IN_DQ == 2
ESCAPED == 3

\* The runes the loop skips: U+FFFD (invalid input) and NUL.
BadRune == "BAD"
NulRune == "NUL"

Whitespace == {" ", "\n", "\t", "\r"}

LexInit == [acc |-> <<>>, split |-> <<>>, state |-> DEFAULT]

\* var wrap = func() {...}: emit the accumulator if it is not empty, reset it.
wrap(lx) ==
  [lx EXCEPT !.split = IF Len(lx.acc) # 0 THEN Append(lx.split, lx.acc) ELSE lx.split,
             !.acc = <<>>]

\* One iteration of the loop body on rune r.
LexRune(lx, r) ==
  IF r = BadRune \/ r = NulRune THEN lx
  ELSE IF lx.state = DEFAULT THEN
         IF r \in Whitespace THEN wrap(lx)
         ELSE IF r = "'" THEN [lx EXCEPT !.state = IN_SQ]
         ELSE IF r = "\"" THEN [lx EXCEPT !.state = IN_DQ]
         ELSE IF r = "\\" THEN [lx EXCEPT !.state = ESCAPED]
         ELSE [lx EXCEPT !.acc = Append(lx.acc, r)]
  ELSE IF lx.state = IN_SQ THEN
         IF r = "'" THEN wrap(lx)
         ELSE [lx EXCEPT !.acc = Append(lx.acc, r)]
  ELSE IF lx.state = IN_DQ THEN
         IF r = "\"" THEN wrap(lx)
         ELSE [lx EXCEPT !.acc = Append(lx.acc, r)]
  ELSE [lx EXCEPT !.acc = Append(lx.acc, r)]

\* (mutation: at the end of the text only DEFAULT flushes; an open quote or
\* escape drops what it has accumulated)
AtEOF_DefaultOnly(lx) == IF lx.state = DEFAULT THEN wrap(lx) ELSE [lx EXCEPT !.acc = <<>>]

\* if io.EOF != err { return err, "" } else { wrap() }: ReadRune on a
\* bytes.Buffer fails with io.EOF only.
AtEOF(lx) == wrap(lx)

\* The whole loop over the text, then the wrap() at io.EOF.
RECURSIVE LexAll(_, _)
LexAll(lx, text) ==
  IF text = <<>> THEN AtEOF(lx) ELSE LexAll(LexRune(lx, Head(text)), Tail(text))

Tokenize(text) == LexAll(LexInit, text).split

\* cmd = split[0], args = split[1:]; both empty when there is no token.
CmdOf(split) == IF Len(split) # 0 THEN Head(split) ELSE <<>>
ArgsOf(split) == IF Len(split) # 0 THEN Tail(split) ELSE <<>>

(***************************************************************************)
(* The pipeline engine (pipeline.go: Step.EvalVariables, Step.Exec,        *)
(* Pipeline.EvalVariables, Pipeline.Exec)                                  *)
(***************************************************************************)
Step(vs, cmd) == [Variables |-> vs, Command |-> cmd]
Pipeline(vs, steps) == [Variables |-> vs, Steps |-> steps]

\* The loop of Step.EvalVariables: every variable is evaluated against the shared
\* ctx and stored in the copy nctx.
RECURSIVE StepVarsLoop(_, _, _)
StepVarsSet(vs, c, nctx, e) ==
  IF e.err THEN [err |-> TRUE, nctx |-> nctx]
  ELSE StepVarsLoop(Tail(vs), c, Put(nctx, Head(vs).Name, e.val))
StepVarsLoop(vs, c, nctx) ==
  IF vs = <<>> THEN [err |-> FALSE, nctx |-> nctx]
  ELSE StepVarsSet(vs, c, nctx, Eval(Head(vs), c))

\* (mutation: the whole step-local copy becomes the shared context)
LeakBack_All(c, nctx) == nctx

\* for k := range ctx { ctx[k] = nctx[k] }
LeakBack(c, nctx) == [k \in DOMAIN c |-> nctx[k]]

\* Step.EvalVariables(ctx): [err, ctx (the shared map afterwards), nctx].
StepVarsDone(c, r) ==
  IF r.err THEN [err |-> TRUE, ctx |-> c, nctx |-> EmptyMap]
  ELSE [err |-> FALSE, ctx |-> LeakBack(c, r.nctx), nctx |-> r.nctx]
StepEvalVariables(s, c) == StepVarsDone(c, StepVarsLoop(s.Variables, c, c))

\* Step.Exec(ctx) with the subprocess's outcome exitOk:
\* [err, ctx, nctx, spawned, cmd, args]; err is "nil", "eval", "render" or "exit".
StepNotSpawned(err, ev) ==
  [err |-> err, ctx |-> ev.ctx, nctx |-> ev.nctx, spawned |-> FALSE,
   cmd |-> <<>>, args |-> <<>>]
\* exec.Command(cmd, args...).Output(): an empty executable name always fails.
StepSpawn(ev, split, exitOk) ==
  [err |-> IF exitOk /\ CmdOf(split) # <<>> THEN "nil" ELSE "exit",
   ctx |-> ev.ctx, nctx |-> ev.nctx, spawned |-> TRUE,
   cmd |-> CmdOf(split), args |-> ArgsOf(split)]
StepRendered(ev, rc, exitOk) ==
  IF rc.err THEN StepNotSpawned("render", ev) ELSE StepSpawn(ev, Tokenize(rc.out), exitOk)
StepEvaluated(s, ev, exitOk) ==
  IF ev.err THEN StepNotSpawned("eval", ev)
  ELSE StepRendered(ev, Render(s.Command, ev.nctx), exitOk)
StepExec(s, c, exitOk) == StepEvaluated(s, StepEvalVariables(s, c), exitOk)

\* Pipeline.EvalVariables(ctx): each value is written into ctx itself: [err, ctx].
RECURSIVE PipelineEvalVariables(_, _)
PipelineVarSet(vs, c, e) ==
  IF e.err THEN [err |-> TRUE, ctx |-> c]
  ELSE PipelineEvalVariables(Tail(vs), Put(c, Head(vs).Name, e.val))
PipelineEvalVariables(vs, c) ==
  IF vs = <<>> THEN [err |-> FALSE, ctx |-> c]
  ELSE PipelineVarSet(vs, c, Eval(Head(vs), c))

\* (mutation: a step's error is ignored)
StepFailed_Never(err) == FALSE

\* if err, str := p.Steps[s].Exec(vars); nil != err { return err, str }
StepFailed(err) == err # "nil"

\* The step loop of Pipeline.Exec from step i on; exits[j] is the outcome of
\* step j's subprocess: [err, ctx, ran (the steps entered), argv (of the spawned)].
RECURSIVE RunSteps(_, _, _, _)
ArgvOf(r) == IF r.spawned THEN << <<r.cmd>> \o r.args >> ELSE <<>>
RunPrepend(i, r, rest) ==
  [rest EXCEPT !.ran = <<i>> \o rest.ran, !.argv = ArgvOf(r) \o rest.argv]
RunStepDone(steps, i, r, exits) ==
  IF StepFailed(r.err)
  THEN [err |-> r.err, ctx |-> r.ctx, ran |-> <<i>>, argv |-> ArgvOf(r)]
  ELSE RunPrepend(i, r, RunSteps(steps, i + 1, r.ctx, exits))
RunSteps(steps, i, c, exits) ==
  IF i > Len(steps) THEN [err |-> "nil", ctx |-> c, ran |-> <<>>, argv |-> <<>>]
  ELSE RunStepDone(steps, i, StepExec(steps[i], c, exits[i]), exits)

\* Pipeline.Exec(ctx).
PipelineVarsDone(p, ev, exits) ==
  IF ev.err THEN [err |-> "eval", ctx |-> ev.ctx, ran |-> <<>>, argv |-> <<>>]
  ELSE RunSteps(p.Steps, 1, ev.ctx, exits)
PipelineExec(p, c, exits) == PipelineVarsDone(p, PipelineEvalVariables(p.Variables, c), exits)

\* ---- the tokenizer as a state machine
MaxLen == 4
TokAlphabet == {"a", " ", "'", "\"", "\\"}

\* cmd -o "a b" 'c d' e\ f
ExampleCmd ==
  <<"c", "m", "d", " ", "-", "o", " ", "\"", "a", " ", "b", "\"", " ",
    "'", "c", " ", "d", "'", " ", "e", "\\", " ", "f">>
ExampleTokens ==
  << <<"c", "m", "d">>, <<"-", "o">>, <<"a", " ", "b">>, <<"c", " ", "d">>,
     <<"e", " ", "f">> >>

\* "abc
QuoteAbc == <<"\"", "a", "b", "c">>

TokInputs ==
  SeqsUpTo(TokAlphabet, MaxLen)
    \cup {ExampleCmd, QuoteAbc, <<"a", BadRune, "a">>, <<"a", NulRune, "\t", "a">>}

\* The locals of Step.Exec before the loop, for every rendered text of TokInputs
\* (no pipeline run is in progress).
TokInit ==
  /\ tokIn \in TokInputs
  /\ tokPos = 0
  /\ lex = LexInit
  /\ tokPc = "loop"
  /\ closedQuote = FALSE
  /\ pl = Pipeline(<<>>, <<>>)
  /\ ctx = EmptyMap
  /\ ppc = "idle"
  /\ stepIdx = 0
  /\ perr = "nil"
  /\ entered = <<>>
  /\ fs = EmptyMap
  /\ born = EmptyMap
  /\ quiet = 0
  /\ writes = 0
  /\ mainPc = "idle"
  /\ cfgIn = "nil"
  /\ rcErr = "nil"
  /\ prepErr = "nil"
  /\ evVar = Var(<<>>, Lit(IntV(0)))
  /\ evRes = <<>>
  /\ prGroup = EmptyMap
  /\ prProbe = EmptyMap
  /\ prRun = <<>>
  /\ made = 0
  /\ srvPc = "idle"
  /\ srvArg = <<>>
  /\ srvOk = FALSE
  /\ watched = {}
  /\ mt = EmptyMap
  /\ checkTime = 0
  /\ pollPc = "off"
  /\ listing = <<>>
  /\ maxTime = 0
  /\ cur = <<>>
  /\ curM = 0
  /\ pollCh = "nil"
  /\ wst = EmptyMap
  /\ regHist = EmptyMap
  /\ lastHas = <<>>
  /\ found = EmptyMap
  /\ ready = {}
  /\ pending = {}
  /\ watching = FALSE
  /\ runs = <<>>
  /\ atClaim = EmptyMap
  /\ fresh = {}
  /\ acGroup = EmptyMap
  /\ acLive = EmptyMap
  /\ acRes = "none"

\* case '\'' in IN_SQ, case '"' in IN_DQ
IsClosingQuote(lx, r) == (lx.state = IN_SQ /\ r = "'") \/ (lx.state = IN_DQ /\ r = "\"")

\* r, _, err = buf.ReadRune() with a rune left, then the loop body.
TokRune ==
  /\ tokPc = "loop"
  /\ tokPos < Len(tokIn)
  /\ lex' = LexRune(lex, tokIn[tokPos + 1])
  /\ closedQuote' = IsClosingQuote(lex, tokIn[tokPos + 1])
  /\ tokPos' = tokPos + 1
  /\ UNCHANGED <<tokIn, tokPc>>
  /\ UNCHANGED <<pipeVars, watchVars, acVars, bootVars, evalVars, gateVars, regVars>>

\* ReadRune returns io.EOF: the loop ends and the accumulator is flushed.
TokEOF ==
  /\ tokPc = "loop"
  /\ tokPos = Len(tokIn)
  /\ lex' = AtEOF(lex)
  /\ tokPc' = "done"
  /\ closedQuote' = FALSE
  /\ UNCHANGED <<tokIn, tokPos>>
  /\ UNCHANGED <<pipeVars, watchVars, acVars, bootVars, evalVars, gateVars, regVars>>

TokNext == TokRune \/ TokEOF

\* ---- Pipeline.Exec as a state machine, one Step.Exec per step
MaxSteps == 3

Txt_r == <<"r">>
PV0 == <<>>
PV1 == <<Var(<<"X">>, Lit(IntV(1)))>>
PV2 == <<Var(<<"X">>, Tmpl(<<TextP(<<"4", "2">>)>>)),
         Var(<<"W">>, Tmpl(<<RefP(<<"X">>), TextP(<<".", "5">>)>>))>>
PV3 == <<Var(<<"X">>, Lit(IntV(1))), Var(<<"B">>, Tmpl(<<BadP>>))>>
PipeVarPool == {PV0, PV1, PV2, PV3}

\* r ((.X)) '((.Id))'
SPlain == Step(<<>>, <<TextP(<<"r", " ">>), RefP(<<"X">>), TextP(<<" ", "'">>), RefP(KeyId),
                       TextP(<<"'">>)>>)
\* X: 2, Y: 9;  r ((.X)) ((.Y))
SRedef == Step(<<Var(<<"X">>, Lit(IntV(2))), Var(<<"Y">>, Lit(IntV(9)))>>,
               <<TextP(<<"r", " ">>), RefP(<<"X">>), TextP(<<" ">>), RefP(<<"Y">>)>>)
\* Y: "7", Z: "((.Y))";  r ((.Z))
SChain == Step(<<Var(<<"Y">>, Tmpl(<<TextP(<<"7">>)>>)), Var(<<"Z">>, Tmpl(<<RefP(<<"Y">>)>>))>>,
               <<TextP(<<"r", " ">>), RefP(<<"Z">>)>>)
\* X: 3, Q: "((.Id.F))";  r
SBadVar == Step(<<Var(<<"X">>, Lit(IntV(3))), Var(<<"Q">>, Tmpl(<<BadP>>))>>, <<TextP(Txt_r)>>)
\* ((.Id.F))
SBadCmd == Step(<<>>, <<BadP>>)
\* a command that renders to no token
SEmpty == Step(<<>>, <<TextP(<<" ">>)>>)
StepPool == {SPlain, SRedef, SChain, SBadVar, SBadCmd, SEmpty}

SeedCtx == [k \in {KeyId} |-> StrV(<<"i">>)]

\* The entry of Pipeline.Exec, for every pipeline of the pools (the tokenizer
\* state machine is not running).
PipeInit ==
  /\ pl \in {Pipeline(vs, st) : vs \in PipeVarPool, st \in SeqsUpTo(StepPool, MaxSteps)}
  /\ ctx = SeedCtx
  /\ ppc = "init"
  /\ stepIdx = 0
  /\ perr = "nil"
  /\ entered = <<>>
  /\ tokIn = <<>>
  /\ tokPos = 0
  /\ lex = LexInit
  /\ tokPc = "idle"
  /\ closedQuote = FALSE
  /\ fs = EmptyMap
  /\ born = EmptyMap
  /\ quiet = 0
  /\ writes = 0
  /\ mainPc = "idle"
  /\ cfgIn = "nil"
  /\ rcErr = "nil"
  /\ prepErr = "nil"
  /\ evVar = Var(<<>>, Lit(IntV(0)))
  /\ evRes = <<>>
  /\ prGroup = EmptyMap
  /\ prProbe = EmptyMap
  /\ prRun = <<>>
  /\ made = 0
  /\ srvPc = "idle"
  /\ srvArg = <<>>
  /\ srvOk = FALSE
  /\ watched = {}
  /\ mt = EmptyMap
  /\ checkTime = 0
  /\ pollPc = "off"
  /\ listing = <<>>
  /\ maxTime = 0
  /\ cur = <<>>
  /\ curM = 0
  /\ pollCh = "nil"
  /\ wst = EmptyMap
  /\ regHist = EmptyMap
  /\ lastHas = <<>>
  /\ found = EmptyMap
  /\ ready = {}
  /\ pending = {}
  /\ watching = FALSE
  /\ runs = <<>>
  /\ atClaim = EmptyMap
  /\ fresh = {}
  /\ acGroup = EmptyMap
  /\ acLive = EmptyMap
  /\ acRes = "none"

\* var vars, err = p.EvalVariables(ctx); if nil != err { return err, "" }
PExecStarted(ev) ==
  /\ ctx' = ev.ctx
  /\ ppc' = IF ev.err THEN "done" ELSE "steps"
  /\ perr' = IF ev.err THEN "eval" ELSE "nil"
PExecStart ==
  /\ ppc = "init"
  /\ PExecStarted(PipelineEvalVariables(pl.Variables, ctx))
  /\ stepIdx' = 1
  /\ UNCHANGED <<pl, entered>>
  /\ UNCHANGED <<tokVars, watchVars, acVars, bootVars, evalVars, gateVars, regVars>>

\* One iteration of the step loop: p.Steps[s].Exec(vars), return on error.
PStepDone(r) ==
  /\ ctx' = r.ctx
  /\ entered' = Append(entered, [idx |-> stepIdx, err |-> r.err, pre |-> ctx,
                                 nctx |-> r.nctx, spawned |-> r.spawned,
                                 cmd |-> r.cmd, args |-> r.args])
  /\ IF StepFailed(r.err)
     THEN ppc' = "done" /\ perr' = r.err /\ stepIdx' = stepIdx
     ELSE ppc' = "steps" /\ perr' = perr /\ stepIdx' = stepIdx + 1
PStep ==
  /\ ppc = "steps"
  /\ stepIdx <= Len(pl.Steps)
  /\ \E exitOk \in BOOLEAN : PStepDone(StepExec(pl.Steps[stepIdx], ctx, exitOk))
  /\ UNCHANGED pl
  /\ UNCHANGED <<tokVars, watchVars, acVars, bootVars, evalVars, gateVars, regVars>>

\* The loop is over: return nil, "".
PReturn ==
  /\ ppc = "steps"
  /\ stepIdx > Len(pl.Steps)
  /\ ppc' = "done"
  /\ perr' = "nil"
  /\ UNCHANGED <<pl, ctx, stepIdx, entered>>
  /\ UNCHANGED <<tokVars, watchVars, acVars, bootVars, evalVars, gateVars, regVars>>

PipeNext == PExecStart \/ PStep \/ PReturn

SpecPipe == PipeInit /\ [][PipeNext]_vars

SpecTok == TokInit /\ [][TokNext]_vars

(***************************************************************************)
(* The group tracker (viirs-watcher.go)                                    *)
(***************************************************************************)
\* launchTime = time.Now() at start; grp.LastModified starts as the zero time.
ZeroTime == 0
launchTime == 2
MaxWrites == 1
\* Modification times before, at and after launchTime; sizes.
Times == {1, 2, 3}
Sizes == {1, 2}

NoFile == [size |-> 0, mtime |-> ZeroTime]
Stats == [size : Sizes, mtime : Times]
\* A file is created with the smallest size.
NewStats == {st \in Stats : \A z \in Sizes : st.size <= z}

\* The configuration: Required, Version, OutputDir, WatchDir.
required == << <<"A">>, <<"B">> >>
version == <<"v", "2", ".", "1">>
OutputDir == <<"/", "o", "u", "t", "p", "u", "t">>
WatchDir == <<"/", "d", "/">>
H5 == <<".", "h", "5">>

KeyVersion == <<"V", "e", "r", "s", "i", "o", "n">>
KeyOutputDir == <<"O", "u", "t", "p", "u", "t", "D", "i", "r">>
NameSuffix == <<"_", "N", "a", "m", "e">>

\* (mutation: a name of fewer than 6 tokens has an id as well, its tokens after
\* the first)
IdOfParts_Lenient(parts) ==
  IF Len(parts) < 2 THEN [err |-> TRUE, id |-> <<>>]
  ELSE [err |-> FALSE, id |-> Join(SubSeq(parts, 2, IF Len(parts) < 5 THEN Len(parts) ELSE 5), "_")]

\* getId(file): [err, id].
IdOfParts(parts) ==
  IF Len(parts) < 6 THEN [err |-> TRUE, id |-> <<>>]
  ELSE [err |-> FALSE, id |-> Join(SubSeq(parts, 2, 5), "_")]
getId(name) == IdOfParts(Split(name, "_"))

\* (mutation: every name counts as required)
isRequired_Any(s) == [ok |-> TRUE, prefix |-> <<>>]

\* Watcher.isRequired(s): [ok, prefix], the first required prefix s starts with.
FirstRequired(s, hits) ==
  IF hits = {} THEN [ok |-> FALSE, prefix |-> <<>>]
  ELSE [ok |-> TRUE, prefix |-> required[CHOOSE i \in hits : \A j \in hits : i <= j]]
isRequired(s) == FirstRequired(s, {i \in 1..Len(required) : HasPrefix(s, required[i])})

\* inf.ModTime().After(f.LastModified) || inf.Size() > f.Size
FileChanged(f, st) == st.mtime > f.LastModified \/ st.size > f.Size

\* FileGroup.AnyChanged(): the map is ranged over in an unspecified order and the
\* first file that is missing or changed decides, so every such file's answer is
\* a possible result.
AnyChangedOf(missing, changed) ==
  (IF missing # {} THEN {"err"} ELSE {})
    \cup (IF changed # {} THEN {"changed"} ELSE {})
    \cup (IF missing \cup changed = {} THEN {"unchanged"} ELSE {})
AnyChanged(files, live) ==
  AnyChangedOf({n \in DOMAIN files : live[n] = NoFile},
               {n \in DOMAIN files : live[n] # NoFile /\ FileChanged(files[n], live[n])})

\* &FileGroup{Files: make(map[string]*File), Path: dir, Id: id}
NewGroup(id) ==
  [Files |-> EmptyMap, LastModified |-> ZeroTime, Path |-> WatchDir, Id |-> id,
   RequiredFound |-> 0]

\* &File{Prefix: strings.Split(inf.Name(), "_")[0], ...}
NewFile(name, p, inf) ==
  [Prefix |-> Split(name, "_")[1], Name |-> name, Fullpath |-> p,
   Size |-> inf.size, LastModified |-> inf.mtime]

\* The end of the callback: the group's LastModified, the file's registration
\* (RequiredFound += 1 for a new name) and the refresh of its size and mtime.
Register(grp, name, p, inf) ==
  [grp EXCEPT
     !.LastModified = IF inf.mtime > grp.LastModified THEN inf.mtime ELSE grp.LastModified,
     !.Files = Put(grp.Files, name,
                   IF name \in DOMAIN grp.Files
                   THEN [grp.Files[name] EXCEPT !.LastModified = inf.mtime, !.Size = inf.size]
                   ELSE NewFile(name, p, inf)),
     !.RequiredFound = IF name \in DOMAIN grp.Files THEN grp.RequiredFound
                       ELSE grp.RequiredFound + 1]

\* All orders in which a set can be ranged over.
Orders(S) == {o \in [1..Cardinality(S) -> S] : \A i, j \in 1..Cardinality(S) : o[i] = o[j] => i = j}

\* gctx[f.Prefix] = f.Fullpath; gctx[f.Prefix+"_Name"] = the name without extension
SeedFile(g, f) ==
  Put(Put(g, f.Prefix, StrV(f.Fullpath)),
      f.Prefix \o NameSuffix, StrV(TrimSuffix(f.Name, Ext(f.Name))))
RECURSIVE SeedFiles(_, _, _)
SeedFiles(g, files, order) ==
  IF order = <<>> THEN g
  ELSE SeedFiles(SeedFile(g, files[Head(order)]), files, Tail(order))

\* The context Process builds, for one order of the range over fg.Files.
SeedBase(id) ==
  Put(Put(Put(EmptyMap, KeyId, StrV(id)), KeyVersion, StrV(version)),
      KeyOutputDir, StrV(OutputDir))
SeedContext(grp, order) == SeedFiles(SeedBase(grp.Id), grp.Files, order)

\* The pipeline of the configuration: one step, r ((.X)) '((.Id))'.
WatchPipeline == Pipeline(PV1, <<SPlain>>)

\* strings.TrimSpace(s)
IsSpace(c) == c \in {" ", "\t", "\n", "\r"}
RECURSIVE TrimLeft(_)
TrimLeft(s) == IF s # <<>> /\ IsSpace(Head(s)) THEN TrimLeft(Tail(s)) ELSE s
RECURSIVE TrimRight(_)
TrimRight(s) ==
  IF s # <<>> /\ IsSpace(s[Len(s)]) THEN TrimRight(SubSeq(s, 1, Len(s) - 1)) ELSE s
TrimSpace(s) == TrimRight(TrimLeft(s))

\* What the outside world answers to one call of hasNight(file): whether
\* `h5dump -x -A file` exits with success, whether the xpath query compiles,
\* whether the dump parses as XML, and the text of the nodes the query selects.
Probe(dump, compile, parse, nodes) ==
  [dump |-> dump, compile |-> compile, parse |-> parse, nodes |-> nodes]

\* (mutation: a failed dump counts as "no night data")
hasNight_FailClosed(pr) ==
  /\ pr.dump = "ok"
  /\ \/ pr.compile # "ok"
     \/ pr.parse # "ok"
     \/ \E i \in 1..Len(pr.nodes) : TrimSpace(pr.nodes[i]) # <<"0">>

\* hasNight(file): true on each of the three errors; otherwise true iff some
\* selected node's trimmed text is not "0".
hasNight(pr) ==
  IF pr.dump # "ok" THEN TRUE
  ELSE IF pr.compile # "ok" THEN TRUE
  ELSE IF pr.parse # "ok" THEN TRUE
  ELSE \E i \in 1..Len(pr.nodes) : TrimSpace(pr.nodes[i]) # <<"0">>

\* The answers of the model: each of the three failures, and every list of at
\* most MaxNodes indicator nodes.
MaxNodes == 2
NodeTexts == {<<"0">>, <<"1">>, <<" ", "0", "\n">>}
NodeLists == UNION {[1..n -> NodeTexts] : n \in 0..MaxNodes}
Probes ==
  {Probe("fail", "ok", "ok", <<>>), Probe("ok", "fail", "ok", <<>>)}
    \cup {Probe("ok", "ok", "fail", <<>>)}
    \cup {Probe("ok", "ok", "ok", ns) : ns \in NodeLists}

\* Process(fg): the record of the call. night is hasNight's answer for the
\* first file of the range, order the order of the range that builds gctx,
\* exitOk the step's subprocess outcome, claimed whether fg.Id is in w.ready
\* when the call starts.
ProcessRun(grp, night, order, exitOk, claimed) ==
  IF ~night
  THEN [id |-> grp.Id, night |-> FALSE, seed |-> EmptyMap, err |-> "none",
        claimed |-> claimed]
  ELSE [id |-> grp.Id, night |-> TRUE, seed |-> SeedContext(grp, order),
        err |-> PipelineExec(WatchPipeline, SeedContext(grp, order), <<exitOk>>).err,
        claimed |-> claimed]

\* ---- the files of the model
MkName(first, idToks, last, ext) == Join(<<first>> \o idToks \o <<last>>, "_") \o ext
IdG == << <<"g">>, <<"1">>, <<"2">>, <<"3">> >>
\* A_g_1_2_3_x.h5, B_g_1_2_3_x.h5 and A2_g_1_2_3_x.h5 share the id g_1_2_3
FA == MkName(<<"A">>, IdG, <<"x">>, H5)
FB == MkName(<<"B">>, IdG, <<"x">>, H5)
FA2 == MkName(<<"A", "2">>, IdG, <<"x">>, H5)
\* A_1.h5 and B_1.h5: fewer than 6 underscore-separated tokens
SA == <<"A", "_", "1">> \o H5
SB == <<"B", "_", "1">> \o H5
\* a wrong extension, and a name with no required prefix
FT == MkName(<<"A">>, IdG, <<"x">>, <<".", "t", "x", "t">>)
FC == MkName(<<"C">>, IdG, <<"x">>, H5)
\* two complete groups of other ids, g_1_2_1 and g_1_2_2
IdP == << <<"g">>, <<"1">>, <<"2">>, <<"1">> >>
IdQ == << <<"g">>, <<"1">>, <<"2">>, <<"2">> >>
PA == MkName(<<"A">>, IdP, <<"x">>, H5)
PB == MkName(<<"B">>, IdP, <<"x">>, H5)
QA == MkName(<<"A">>, IdQ, <<"x">>, H5)
QB == MkName(<<"B">>, IdQ, <<"x">>, H5)
Scenarios == {{FA, FB}, {FA, FB, FA2}, {SA, SB}, {FA, FT, FC}, {PA, PB, QA, QB}}
\* The files that are written or removed after their creation; the others are
\* complete when they appear.
Growing == {FA, FB, SA, FT}

FullPath(name) == WatchDir \o name

\* ---- the watcher as a state machine
\* NewWatcher: empty found and ready maps, over one of the scenarios' trees,
\* in which no file exists yet.
WatchInit ==
  /\ fs \in {[f \in sc |-> NoFile] : sc \in Scenarios}
  /\ born = EmptyMap
  /\ quiet = 0
  /\ writes = 0
  /\ mainPc = "idle"
  /\ cfgIn = "nil"
  /\ rcErr = "nil"
  /\ prepErr = "nil"
  /\ evVar = Var(<<>>, Lit(IntV(0)))
  /\ evRes = <<>>
  /\ prGroup = EmptyMap
  /\ prProbe = EmptyMap
  /\ prRun = <<>>
  /\ made = 0
  /\ srvPc = "idle"
  /\ srvArg = <<>>
  /\ srvOk = FALSE
  /\ watched = {}
  /\ mt = EmptyMap
  /\ checkTime = 0
  /\ pollPc = "off"
  /\ listing = <<>>
  /\ maxTime = 0
  /\ cur = <<>>
  /\ curM = 0
  /\ pollCh = "nil"
  /\ wst = EmptyMap
  /\ regHist = EmptyMap
  /\ lastHas = <<>>
  /\ found = EmptyMap
  /\ ready = {}
  /\ pending = {}
  /\ watching = TRUE
  /\ runs = <<>>
  /\ atClaim = EmptyMap
  /\ fresh = {}
  /\ acGroup = EmptyMap
  /\ acLive = EmptyMap
  /\ acRes = "none"
  /\ tokIn = <<>>
  /\ tokPos = 0
  /\ lex = LexInit
  /\ tokPc = "idle"
  /\ closedQuote = FALSE
  /\ pl = Pipeline(<<>>, <<>>)
  /\ ctx = EmptyMap
  /\ ppc = "idle"
  /\ stepIdx = 0
  /\ perr = "nil"
  /\ entered = <<>>

\* The environment. A file that was never there
\* is created, with any mtime; a walk lists the tree when it starts, so a file
\* created during a walk is first seen by the next one, as if created after it.
\* A file of Growing is appended to (its size or its mtime grows) or removed, at
\* any moment, at most MaxWrites times in all.
EnvCreate(f) ==
  /\ pending = {}
  /\ f \notin DOMAIN born
  /\ \E st \in NewStats :
       /\ fs' = [fs EXCEPT ![f] = st]
       /\ born' = Put(born, f, st.mtime)
  /\ quiet' = 0
  /\ UNCHANGED <<writes, found, ready, pending, watching, runs, atClaim, fresh>>
  /\ UNCHANGED <<tokVars, pipeVars, acVars, bootVars, evalVars, gateVars, regVars>>
EnvWrite(f) ==
  /\ f \in Growing
  /\ fs[f] # NoFile
  /\ writes < MaxWrites
  /\ writes' = writes + 1
  /\ \E st \in Stats \ {fs[f]} :
       /\ st.size >= fs[f].size
       /\ st.mtime >= fs[f].mtime
       /\ fs' = [fs EXCEPT ![f] = st]
  /\ quiet' = 0
  /\ UNCHANGED <<born, found, ready, pending, watching, runs, atClaim, fresh>>
  /\ UNCHANGED <<tokVars, pipeVars, acVars, bootVars, evalVars, gateVars, regVars>>
EnvRemove(f) ==
  /\ f \in Growing
  /\ fs[f] # NoFile
  /\ writes < MaxWrites
  /\ writes' = writes + 1
  /\ fs' = [fs EXCEPT ![f] = NoFile]
  /\ quiet' = 0
  /\ UNCHANGED <<born, found, ready, pending, watching, runs, atClaim, fresh>>
  /\ UNCHANGED <<tokVars, pipeVars, acVars, bootVars, evalVars, gateVars, regVars>>

\* for { fp.Walk(w.root, ...); <-time.After(w.delay) }: the next walk starts and
\* lists the files that exist.
StartRound ==
  /\ watching
  /\ pending = {}
  /\ pending' = {f \in DOMAIN fs : fs[f] # NoFile}
  /\ fresh' = {}
  /\ quiet' = IF quiet = 0 THEN 1 ELSE 2
  /\ UNCHANGED <<fs, born, writes, found, ready, watching, runs, atClaim>>
  /\ UNCHANGED <<tokVars, pipeVars, acVars, bootVars, evalVars, gateVars, regVars>>

\* The callback returns before touching the tracker.
Ignored(name, why) == UNCHANGED <<found, ready, runs, atClaim, fresh>>

\* w.ready[grp.Id] = grp
MarkReady(rdy, id) == rdy \cup {id}

\* (mutation: Process(grp) is called first and the group is marked afterwards)
ReadyAtDispatch_Before(rdy, id) == rdy

\* w.ready as Process(grp) finds it: the assignment of line 229 comes first.
ReadyAtDispatch(rdy, id) == MarkReady(rdy, id)

\* w.ready[grp.Id] = grp, then Process(grp) if the group is newer than the start.
Claimed(grp) ==
  /\ ready' = MarkReady(ready, grp.Id)
  /\ atClaim' = Put(atClaim, grp.Id,
                    [grp |-> grp, fresh |-> fresh \cap DOMAIN grp.Files])
  /\ IF grp.LastModified > launchTime
     THEN \E night \in {hasNight(pr) : pr \in Probes},
             order \in Orders(DOMAIN grp.Files), exitOk \in BOOLEAN :
            runs' = Append(runs, ProcessRun(grp, night, order, exitOk,
                                            grp.Id \in ReadyAtDispatch(ready, grp.Id)))
     ELSE runs' = runs
NotClaimed == UNCHANGED <<ready, runs, atClaim>>

\* if len(w.required) == grp.RequiredFound { if changed, err := grp.AnyChanged() ... }
ReadyCheck(grp) ==
  IF Len(required) = grp.RequiredFound
  THEN \E ac \in AnyChanged(grp.Files, fs) :
         IF ac = "unchanged" THEN Claimed(grp) ELSE NotClaimed
  ELSE NotClaimed

\* The rest of the callback on the group grp of the file's id.
OnGroup(name, p, inf, grp) ==
  /\ ReadyCheck(grp)
  /\ found' = Put(found, grp.Id, Register(grp, name, p, inf))
  /\ fresh' = fresh \cup {name}

\* (mutation: a claimed id is looked at again)
IsReady_Never(id) == FALSE

\* if _, ok := w.ready[id]; ok { return nil }
IsReady(id) == id \in ready

\* if inf.ModTime().Before(launchTime) { return nil }
TooOld(inf) == inf.mtime < launchTime

OnId(name, p, inf, id) ==
  IF IsReady(id) THEN Ignored(name, "ready")
  ELSE IF id \in DOMAIN found THEN OnGroup(name, p, inf, found[id])
  ELSE IF TooOld(inf) THEN Ignored(name, "old")
  ELSE OnGroup(name, p, inf, NewGroup(id))

\* The walk function on a file that lstat found.
Callback(name, p, inf) ==
  IF Ext(p) # H5 THEN Ignored(name, "ext")
  ELSE IF ~isRequired(name).ok THEN Ignored(name, "notreq")
  ELSE IF getId(name).err THEN Ignored(name, "badname")
  ELSE OnId(name, p, inf, getId(name).id)

\* filepath.Walk visits the names of a directory in lexical (byte) order.
RuneOrder == <<".", "1", "2", "3", "5", "A", "B", "C", "_", "g", "h", "t", "x">>
Rank(c) == CHOOSE i \in 1..Len(RuneOrder) : RuneOrder[i] = c
RECURSIVE LexLess(_, _)
LexLess(a, b) ==
  IF b = <<>> THEN FALSE
  ELSE IF a = <<>> THEN TRUE
  ELSE IF Head(a) # Head(b) THEN Rank(Head(a)) < Rank(Head(b))
  ELSE LexLess(Tail(a), Tail(b))
NextOfWalk(f, todo) == f \in todo /\ \A g \in todo \ {f} : LexLess(f, g)

\* (mutation: Watch returns the error of a walk)
LoopAfterWalk_ReturnsErr(res) == res = "nil"

\* for { fp.Walk(w.root, ...); <-time.After(w.delay) }: the result of the walk
\* is dropped and the loop has no exit.
LoopAfterWalk(res) == TRUE

\* One file of the walk. A file that is gone makes lstat fail: the callback
\* returns the error and the walk of this round ends.
Visit(f) ==
  /\ watching
  /\ NextOfWalk(f, pending)
  /\ IF fs[f] = NoFile
     THEN pending' = {} /\ Ignored(f, "lstat")
     ELSE pending' = pending \ {f} /\ Callback(f, FullPath(f), fs[f])
  /\ watching' = IF pending' # {} THEN TRUE
                 ELSE LoopAfterWalk(IF fs[f] = NoFile THEN "err" ELSE "nil")
  /\ UNCHANGED <<fs, born, quiet, writes>>
  /\ UNCHANGED <<tokVars, pipeVars, acVars, bootVars, evalVars, gateVars, regVars>>

WatchNext ==
  \/ StartRound
  \/ \E f \in DOMAIN fs : Visit(f)
  \/ \E f \in DOMAIN fs : EnvCreate(f)
  \/ \E f \in DOMAIN fs : EnvWrite(f)
  \/ \E f \in DOMAIN fs : EnvRemove(f)

Spec == WatchInit /\ [][WatchNext]_vars

\* Watch is one goroutine that walks, sleeps w.delay and walks again. The
\* timer fires, so a round that is due starts (StartRound is enabled exactly
\* when no walk is under way); and fp.Walk over a finite tree returns, so
\* every walk ends: a walk that has a next entry always takes it (Visit(f) is
\* enabled for the first pending entry f) and each visit shortens or drops
\* the pending list.
WalkEnds == []<>(pending = {})
FairSpec == Spec /\ WF_vars(StartRound) /\ WalkEnds

\* ---- one call of FileGroup.AnyChanged, on every group of one or two files
\* with every recorded and every live size and mtime
AcFiles(names) ==
  {[n \in names |-> [NewFile(n, FullPath(n), NoFile) EXCEPT !.Size = r[n].size,
                                                             !.LastModified = r[n].mtime]] :
     r \in [names -> Stats]}
AcInit ==
  /\ acGroup \in AcFiles({FA}) \cup AcFiles({FA, FB})
  /\ acLive \in [DOMAIN acGroup -> Stats \cup {NoFile}]
  /\ acRes = "none"
  /\ fs = EmptyMap
  /\ born = EmptyMap
  /\ quiet = 0
  /\ writes = 0
  /\ mainPc = "idle"
  /\ cfgIn = "nil"
  /\ rcErr = "nil"
  /\ prepErr = "nil"
  /\ evVar = Var(<<>>, Lit(IntV(0)))
  /\ evRes = <<>>
  /\ prGroup = EmptyMap
  /\ prProbe = EmptyMap
  /\ prRun = <<>>
  /\ made = 0
  /\ srvPc = "idle"
  /\ srvArg = <<>>
  /\ srvOk = FALSE
  /\ watched = {}
  /\ mt = EmptyMap
  /\ checkTime = 0
  /\ pollPc = "off"
  /\ listing = <<>>
  /\ maxTime = 0
  /\ cur = <<>>
  /\ curM = 0
  /\ pollCh = "nil"
  /\ wst = EmptyMap
  /\ regHist = EmptyMap
  /\ lastHas = <<>>
  /\ found = EmptyMap
  /\ ready = {}
  /\ pending = {}
  /\ watching = FALSE
  /\ runs = <<>>
  /\ atClaim = EmptyMap
  /\ fresh = {}
  /\ tokIn = <<>>
  /\ tokPos = 0
  /\ lex = LexInit
  /\ tokPc = "idle"
  /\ closedQuote = FALSE
  /\ pl = Pipeline(<<>>, <<>>)
  /\ ctx = EmptyMap
  /\ ppc = "idle"
  /\ stepIdx = 0
  /\ perr = "nil"
  /\ entered = <<>>

\* changed, err := grp.AnyChanged()
AcCall ==
  /\ acRes = "none"
  /\ acRes' \in AnyChanged(acGroup, acLive)
  /\ UNCHANGED <<acGroup, acLive>>
  /\ UNCHANGED <<tokVars, pipeVars, watchVars, bootVars, evalVars, gateVars, regVars>>

SpecAC == AcInit /\ [][AcCall]_vars

(***************************************************************************)
(* Startup (viirs-watcher.go, readConfig and main; pipeline.go, Prepare)   *)
(***************************************************************************)
\* A template text that does not parse (an action that is left open).
SyntaxP == [k |-> "syntax"]

\* tt.New(name).Delims(lDelim, rDelim).Parse(text)
TemplateParse(parts) ==
  IF \E i \in 1..Len(parts) : parts[i].k = "syntax" THEN "err" ELSE "nil"

\* Variable.Prepare(): a value that is not a string is not compiled.
VariablePrepare(v) == IF ~v.Value.str THEN "nil" ELSE TemplateParse(v.Value.parts)

\* for i := range vs { if err := vs[i].Prepare(); nil != err { return err } }
VariablesPrepare(vs) ==
  IF \E i \in 1..Len(vs) : VariablePrepare(vs[i]) # "nil" THEN "err" ELSE "nil"

\* Step.Prepare()
StepPrepare(s) ==
  IF VariablesPrepare(s.Variables) # "nil" THEN "err" ELSE TemplateParse(s.Command)

\* Pipeline.Prepare()
PipelinePrepare(p) ==
  IF VariablesPrepare(p.Variables) # "nil" THEN "err"
  ELSE IF \E i \in 1..Len(p.Steps) : StepPrepare(p.Steps[i]) # "nil" THEN "err"
  ELSE "nil"

\* readConfig(): an error of the arguments, the file, the YAML or the period is
\* returned; otherwise pipeline.Prepare() is called, its result is dropped and
\* nil is returned.
readConfig(in, prep) == in

\* The configurations of the model.
MaxBootSteps == 2
PVSyntax == <<Var(<<"X">>, Lit(IntV(1))), Var(<<"B">>, Tmpl(<<TextP(Txt_r), SyntaxP>>))>>
SSyntaxVar == Step(<<Var(<<"Q">>, Tmpl(<<SyntaxP>>))>>, <<TextP(Txt_r)>>)
SSyntaxCmd == Step(<<>>, <<TextP(Txt_r), SyntaxP>>)
BootPipes ==
  {Pipeline(vs, st) : vs \in {PV0, PV1, PVSyntax},
                      st \in SeqsUpTo({SPlain, SSyntaxVar, SSyntaxCmd}, MaxBootSteps)}
CfgOutcomes == {"nil", "noargs", "open", "yaml", "period"}

BootInit ==
  /\ mainPc = "start"
  /\ cfgIn \in CfgOutcomes
  /\ pl \in BootPipes
  /\ rcErr = "nil"
  /\ prepErr = "notcalled"
  /\ ctx = EmptyMap
  /\ ppc = "idle"
  /\ stepIdx = 0
  /\ perr = "nil"
  /\ entered = <<>>
  /\ tokIn = <<>>
  /\ tokPos = 0
  /\ lex = LexInit
  /\ tokPc = "idle"
  /\ closedQuote = FALSE
  /\ fs = EmptyMap
  /\ born = EmptyMap
  /\ quiet = 0
  /\ writes = 0
  /\ evVar = Var(<<>>, Lit(IntV(0)))
  /\ evRes = <<>>
  /\ prGroup = EmptyMap
  /\ prProbe = EmptyMap
  /\ prRun = <<>>
  /\ made = 0
  /\ srvPc = "idle"
  /\ srvArg = <<>>
  /\ srvOk = FALSE
  /\ watched = {}
  /\ mt = EmptyMap
  /\ checkTime = 0
  /\ pollPc = "off"
  /\ listing = <<>>
  /\ maxTime = 0
  /\ cur = <<>>
  /\ curM = 0
  /\ pollCh = "nil"
  /\ wst = EmptyMap
  /\ regHist = EmptyMap
  /\ lastHas = <<>>
  /\ found = EmptyMap
  /\ ready = {}
  /\ pending = {}
  /\ watching = FALSE
  /\ runs = <<>>
  /\ atClaim = EmptyMap
  /\ fresh = {}
  /\ acGroup = EmptyMap
  /\ acLive = EmptyMap
  /\ acRes = "none"

\* if err := readConfig(); ...
ReadConfig ==
  /\ mainPc = "start"
  /\ mainPc' = "configured"
  /\ prepErr' = IF cfgIn = "nil" THEN PipelinePrepare(pl) ELSE prepErr
  /\ rcErr' = readConfig(cfgIn, prepErr')
  /\ UNCHANGED cfgIn
  /\ UNCHANGED <<tokVars, pipeVars, watchVars, acVars, evalVars, gateVars, regVars>>

\* log.Printf("Failed to parse config ..."); os.Exit(1)
MainExit ==
  /\ mainPc = "configured"
  /\ rcErr # "nil"
  /\ mainPc' = "exited"
  /\ UNCHANGED <<cfgIn, rcErr, prepErr>>
  /\ UNCHANGED <<tokVars, pipeVars, watchVars, acVars, evalVars, gateVars, regVars>>

\* var watcher = NewWatcher(...); watcher.Watch()
MainWatch ==
  /\ mainPc = "configured"
  /\ rcErr = "nil"
  /\ mainPc' = "watching"
  /\ UNCHANGED <<cfgIn, rcErr, prepErr>>
  /\ UNCHANGED <<tokVars, pipeVars, watchVars, acVars, evalVars, gateVars, regVars>>

BootNext == ReadConfig \/ MainExit \/ MainWatch

SpecBoot == BootInit /\ [][BootNext]_vars

(***************************************************************************)
(* One call of Variable.Eval on every variable and context of the pools    *)
(***************************************************************************)
MaxEvalLen == 3
EvalAlphabet == {"1", "t", "-", ".", "e", "x"}
EvalExamples ==
  {<<"t", "r", "u", "e">>, <<"4", "2">>, <<"3", ".", "1", "4">>, <<"h", "e", "l", "l", "o">>}
EvalTexts == SeqsUpTo(EvalAlphabet, MaxEvalLen) \cup EvalExamples
EvalLits == {Lit(BoolV(TRUE)), Lit(IntV(7)), Lit(FloatV(<<"2", ".", "5">>))}
EvalVars ==
  {Var(<<"V">>, val) :
     val \in EvalLits \cup {Tmpl(<<TextP(t)>>) : t \in EvalTexts}
                      \cup {Tmpl(<<TextP(t), RefP(<<"X">>)>>) : t \in EvalTexts}
                      \cup {Tmpl(<<RefP(<<"X">>), BadP>>)}}
EvalCtxs ==
  {EmptyMap} \cup {[k \in {<<"X">>} |-> val] :
                     val \in {IntV(1), BoolV(FALSE), StrV(<<"e", "1">>)}}

EvalInit ==
  /\ evVar \in EvalVars
  /\ ctx \in EvalCtxs
  /\ evRes = <<>>
  /\ pl = Pipeline(<<>>, <<>>)
  /\ ppc = "idle"
  /\ stepIdx = 0
  /\ perr = "nil"
  /\ entered = <<>>
  /\ tokIn = <<>>
  /\ tokPos = 0
  /\ lex = LexInit
  /\ tokPc = "idle"
  /\ closedQuote = FALSE
  /\ fs = EmptyMap
  /\ born = EmptyMap
  /\ quiet = 0
  /\ writes = 0
  /\ mainPc = "idle"
  /\ cfgIn = "nil"
  /\ rcErr = "nil"
  /\ prepErr = "nil"
  /\ prGroup = EmptyMap
  /\ prProbe = EmptyMap
  /\ prRun = <<>>
  /\ made = 0
  /\ srvPc = "idle"
  /\ srvArg = <<>>
  /\ srvOk = FALSE
  /\ watched = {}
  /\ mt = EmptyMap
  /\ checkTime = 0
  /\ pollPc = "off"
  /\ listing = <<>>
  /\ maxTime = 0
  /\ cur = <<>>
  /\ curM = 0
  /\ pollCh = "nil"
  /\ wst = EmptyMap
  /\ regHist = EmptyMap
  /\ lastHas = <<>>
  /\ found = EmptyMap
  /\ ready = {}
  /\ pending = {}
  /\ watching = FALSE
  /\ runs = <<>>
  /\ atClaim = EmptyMap
  /\ fresh = {}
  /\ acGroup = EmptyMap
  /\ acLive = EmptyMap
  /\ acRes = "none"

\* val, err := v.Eval(ctx)
EvalCall ==
  /\ evRes = <<>>
  /\ evRes' = <<Eval(evVar, ctx)>>
  /\ UNCHANGED evVar
  /\ UNCHANGED <<tokVars, pipeVars, watchVars, acVars, bootVars, gateVars, regVars>>

SpecEval == EvalInit /\ [][EvalCall]_vars

(***************************************************************************)
(* One call of Process(fg) on a claimed group (viirs-watcher.go:134-155)   *)
(***************************************************************************)
\* The groups the callback builds from these files, all seen once.
RECURSIVE GroupOfFiles(_, _)
GroupOfFiles(id, names) ==
  IF names = {} THEN NewGroup(id)
  ELSE LET n == CHOOSE x \in names : TRUE
       IN Register(GroupOfFiles(id, names \ {n}), n, FullPath(n), [size |-> 1, mtime |-> 3])
GateGroups ==
  {GroupOfFiles(getId(FA).id, ns) : ns \in {{FA, FB}, {FA2, FB}, {FA, FB, FA2}, {FA}}}
    \cup {GroupOfFiles(getId(PA).id, {PA, PB}), GroupOfFiles(getId(QA).id, {QA, QB})}

GateInit ==
  /\ evVar = Var(<<>>, Lit(IntV(0)))
  /\ ctx = EmptyMap
  /\ evRes = <<>>
  /\ pl = Pipeline(<<>>, <<>>)
  /\ ppc = "idle"
  /\ stepIdx = 0
  /\ perr = "nil"
  /\ entered = <<>>
  /\ tokIn = <<>>
  /\ tokPos = 0
  /\ lex = LexInit
  /\ tokPc = "idle"
  /\ closedQuote = FALSE
  /\ fs = EmptyMap
  /\ born = EmptyMap
  /\ quiet = 0
  /\ writes = 0
  /\ mainPc = "idle"
  /\ cfgIn = "nil"
  /\ rcErr = "nil"
  /\ prepErr = "nil"
  /\ prGroup \in GateGroups
  /\ prProbe \in Probes
  /\ prRun = <<>>
  /\ made = 0
  /\ srvPc = "idle"
  /\ srvArg = <<>>
  /\ srvOk = FALSE
  /\ watched = {}
  /\ mt = EmptyMap
  /\ checkTime = 0
  /\ pollPc = "off"
  /\ listing = <<>>
  /\ maxTime = 0
  /\ cur = <<>>
  /\ curM = 0
  /\ pollCh = "nil"
  /\ wst = EmptyMap
  /\ regHist = EmptyMap
  /\ lastHas = <<>>
  /\ found = EmptyMap
  /\ ready = {}
  /\ pending = {}
  /\ watching = FALSE
  /\ runs = <<>>
  /\ atClaim = EmptyMap
  /\ fresh = {}
  /\ acGroup = EmptyMap
  /\ acLive = EmptyMap
  /\ acRes = "none"

\* Process(fg): hasNight on the first ranged file, then the pipeline.
ProcessCall ==
  /\ prRun = <<>>
  /\ \E order \in Orders(DOMAIN prGroup.Files), exitOk \in BOOLEAN :
       prRun' = <<ProcessRun(prGroup, hasNight(prProbe), order, exitOk, TRUE)>>
  /\ UNCHANGED <<prGroup, prProbe>>
  /\ UNCHANGED <<tokVars, pipeVars, watchVars, acVars, bootVars, evalVars, regVars>>

SpecGate == GateInit /\ [][ProcessCall]_vars

(***************************************************************************)
(* The directory registry of the older variant (src/unnamed/part_001):     *)
(* main's polling loop, the Serve goroutine that owns w.watched, and the   *)
(* watcher goroutines that watchRoot starts, over unbuffered channels.     *)
(***************************************************************************)
\* var prefix = "NPP"; the entries of the watched directory: two that carry
\* the prefix and hold a subdirectory, one of another satellite.
prefix == <<"N", "P", "P">>
E1 == prefix \o <<"1">>
E2 == prefix \o <<"2">>
EX == <<"X", "1">>
Entries == {E1, E2, EX}
\* filepath.Join(dir, finfo.Name(), subDir)
SubdirOf(e) == <<"/">> \o e \o <<"/", "r">>
Subdirs == {SubdirOf(e) : e \in Entries}
EntryOf(d) == CHOOSE e \in Entries : SubdirOf(e) = d
\* ioutil.ReadDir returns the entries sorted by name.
ReadDir == <<E1, E2, EX>>
\* The modification times a subdirectory can reach, and the watcher
\* goroutines of one subdirectory the model can hold at once.
MaxTick == 2
MaxWatchers == 2
NoWatcher == [run |-> 0, rem |-> 0, stuck |-> 0]

\* The value of a channel field of w: nil until Serve's make has run. The
\* fields are made in the order watched, chput, chremove, chhas.
ChanField(name, n) ==
  IF name = "chput" THEN (IF n >= 2 THEN "chput" ELSE "nil")
  ELSE IF name = "chremove" THEN (IF n >= 3 THEN "chremove" ELSE "nil")
  ELSE (IF n >= 4 THEN "chhas" ELSE "nil")

\* (mutation: the lookup never finds the name)
HasReply_Never(w, name) == FALSE
\* _, ok := w.watched[reqres.s]
HasReply(w, name) == name \in w

RegInit ==
  /\ evVar = Var(<<>>, Lit(IntV(0)))
  /\ ctx = EmptyMap
  /\ evRes = <<>>
  /\ pl = Pipeline(<<>>, <<>>)
  /\ ppc = "idle"
  /\ stepIdx = 0
  /\ perr = "nil"
  /\ entered = <<>>
  /\ tokIn = <<>>
  /\ tokPos = 0
  /\ lex = LexInit
  /\ tokPc = "idle"
  /\ closedQuote = FALSE
  /\ fs = EmptyMap
  /\ born = EmptyMap
  /\ quiet = 0
  /\ writes = 0
  /\ mainPc = "idle"
  /\ cfgIn = "nil"
  /\ rcErr = "nil"
  /\ prepErr = "nil"
  /\ prGroup = EmptyMap
  /\ prProbe = EmptyMap
  /\ prRun = <<>>
  /\ made = 0
  /\ srvPc = "make"
  /\ srvArg = <<>>
  /\ srvOk = FALSE
  /\ watched = {}
  /\ mt = [e \in Entries |-> 0]
  /\ checkTime = 0
  /\ pollPc = "idle"
  /\ listing = <<>>
  /\ maxTime = 0
  /\ cur = <<>>
  /\ curM = 0
  /\ pollCh = "nil"
  /\ wst = [d \in Subdirs |-> NoWatcher]
  /\ regHist = [d \in Subdirs |-> FALSE]
  /\ lastHas = <<>>
  /\ found = EmptyMap
  /\ ready = {}
  /\ pending = {}
  /\ watching = FALSE
  /\ runs = <<>>
  /\ atClaim = EmptyMap
  /\ fresh = {}
  /\ acGroup = EmptyMap
  /\ acLive = EmptyMap
  /\ acRes = "none"

\* w.watched = make(...); w.chput = make(...); w.chremove = make(...);
\* w.chhas = make(...): one assignment per step, then the select loop.
ServeMake ==
  /\ srvPc = "make"
  /\ made' = made + 1
  /\ srvPc' = IF made' = 4 THEN "select" ELSE "make"
  /\ UNCHANGED <<srvArg, srvOk, watched, mt, checkTime, pollPc, listing, maxTime, cur,
                 curM, pollCh, wst, regHist, lastHas>>
  /\ UNCHANGED <<tokVars, pipeVars, watchVars, acVars, bootVars, evalVars, gateVars>>

\* main: checkTime = watchRoot(watchDir, checkTime), up to the listing.
PollRound ==
  /\ pollPc = "idle"
  /\ listing' = ReadDir
  /\ maxTime' = checkTime
  /\ pollPc' = "scan"
  /\ UNCHANGED <<made, srvPc, srvArg, srvOk, watched, mt, checkTime, cur, curM, pollCh,
                 wst, regHist, lastHas>>
  /\ UNCHANGED <<tokVars, pipeVars, watchVars, acVars, bootVars, evalVars, gateVars>>

\* One entry of the listing: the prefix filter, the stat of the subdirectory,
\* the "too old" test against since (= checkTime), and the start of
\* watcher.Has(subdir), which evaluates the operand w.chhas of its send.
ScanEntry ==
  /\ pollPc = "scan"
  /\ listing # <<>>
  /\ listing' = Tail(listing)
  /\ IF HasPrefix(Head(listing), prefix) /\ mt[Head(listing)] > checkTime
     THEN /\ cur' = SubdirOf(Head(listing))
          /\ curM' = mt[Head(listing)]
          /\ pollCh' = ChanField("chhas", made)
          /\ pollPc' = "has_send"
     ELSE UNCHANGED <<cur, curM, pollCh, pollPc>>
  /\ UNCHANGED <<made, srvPc, srvArg, srvOk, watched, mt, checkTime, maxTime, wst,
                 regHist, lastHas>>
  /\ UNCHANGED <<tokVars, pipeVars, watchVars, acVars, bootVars, evalVars, gateVars>>

\* return maxTime; then <-time.After(period)
ScanDone ==
  /\ pollPc = "scan"
  /\ listing = <<>>
  /\ checkTime' = maxTime
  /\ pollPc' = "idle"
  /\ UNCHANGED <<made, srvPc, srvArg, srvOk, watched, mt, listing, maxTime, cur, curM,
                 pollCh, wst, regHist, lastHas>>
  /\ UNCHANGED <<tokVars, pipeVars, watchVars, acVars, bootVars, evalVars, gateVars>>

\* w.chhas <- reqres meets `case reqres := <-w.chhas` of Serve's select. A
\* send on a nil channel never meets anything.
HasSend ==
  /\ pollPc = "has_send"
  /\ pollCh = "chhas"
  /\ srvPc = "select"
  /\ srvPc' = "has"
  /\ srvArg' = cur
  /\ pollPc' = "has_recv"
  /\ UNCHANGED <<made, srvOk, watched, mt, checkTime, listing, maxTime, cur, curM, pollCh,
                 wst, regHist, lastHas>>
  /\ UNCHANGED <<tokVars, pipeVars, watchVars, acVars, bootVars, evalVars, gateVars>>

\* _, ok := w.watched[reqres.s]
ServeLookup ==
  /\ srvPc = "has"
  /\ srvOk' = HasReply(watched, srvArg)
  /\ srvPc' = "reply"
  /\ UNCHANGED <<made, srvArg, watched, mt, checkTime, pollPc, listing, maxTime, cur, curM,
                 pollCh, wst, regHist, lastHas>>
  /\ UNCHANGED <<tokVars, pipeVars, watchVars, acVars, bootVars, evalVars, gateVars>>

\* reqres.res <- ok meets `return <-reqres.res`; on true watchRoot goes on to
\* the next entry, on false it starts watcher.Put(subdir), which evaluates
\* the operand w.chput of its send.
HasReturn ==
  /\ srvPc = "reply"
  /\ pollPc = "has_recv"
  /\ srvPc' = "select"
  /\ lastHas' = <<[s |-> srvArg, ok |-> srvOk, expect |-> regHist[srvArg]]>>
  /\ IF srvOk
     THEN pollPc' = "scan" /\ UNCHANGED pollCh
     ELSE pollPc' = "put_send" /\ pollCh' = ChanField("chput", made)
  /\ UNCHANGED <<made, srvArg, srvOk, watched, mt, checkTime, listing, maxTime, cur, curM,
                 wst, regHist>>
  /\ UNCHANGED <<tokVars, pipeVars, watchVars, acVars, bootVars, evalVars, gateVars>>

\* w.chput <- name meets `case name := <-w.chput`; Put returns.
PutSend ==
  /\ pollPc = "put_send"
  /\ pollCh = "chput"
  /\ srvPc = "select"
  /\ srvPc' = "put"
  /\ srvArg' = cur
  /\ regHist' = [regHist EXCEPT ![cur] = TRUE]
  /\ pollPc' = "spawn"
  /\ UNCHANGED <<made, srvOk, watched, mt, checkTime, listing, maxTime, cur, curM, pollCh,
                 wst, lastHas>>
  /\ UNCHANGED <<tokVars, pipeVars, watchVars, acVars, bootVars, evalVars, gateVars>>

\* w.watched[name] = struct{}{}
ServePut ==
  /\ srvPc = "put"
  /\ watched' = watched \cup {srvArg}
  /\ srvPc' = "select"
  /\ UNCHANGED <<made, srvArg, srvOk, mt, checkTime, pollPc, listing, maxTime, cur, curM,
                 pollCh, wst, regHist, lastHas>>
  /\ UNCHANGED <<tokVars, pipeVars, watchVars, acVars, bootVars, evalVars, gateVars>>

\* go func(subdir string) {...}(subdir), and the update of maxTime.
Spawn ==
  /\ pollPc = "spawn"
  /\ wst[cur].run < MaxWatchers
  /\ wst' = [wst EXCEPT ![cur].run = @ + 1]
  /\ maxTime' = IF curM > maxTime THEN curM ELSE maxTime
  /\ pollPc' = "scan"
  /\ UNCHANGED <<made, srvPc, srvArg, srvOk, watched, mt, checkTime, listing, cur, curM,
                 pollCh, regHist, lastHas>>
  /\ UNCHANGED <<tokVars, pipeVars, watchVars, acVars, bootVars, evalVars, gateVars>>

\* A watcher goroutine of d is through with hasChanged and watchSub and
\* starts watcher.Remove(subdir), which evaluates the operand w.chremove.
WatcherFinish(d) ==
  /\ wst[d].run > 0
  /\ wst' = IF ChanField("chremove", made) = "nil"
            THEN [wst EXCEPT ![d].run = @ - 1, ![d].stuck = @ + 1]
            ELSE [wst EXCEPT ![d].run = @ - 1, ![d].rem = @ + 1]
  /\ UNCHANGED <<made, srvPc, srvArg, srvOk, watched, mt, checkTime, pollPc, listing,
                 maxTime, cur, curM, pollCh, regHist, lastHas>>
  /\ UNCHANGED <<tokVars, pipeVars, watchVars, acVars, bootVars, evalVars, gateVars>>

\* w.chremove <- name meets `case name := <-w.chremove`; Remove returns and
\* the goroutine ends.
RemoveSend(d) ==
  /\ wst[d].rem > 0
  /\ srvPc = "select"
  /\ srvPc' = "remove"
  /\ srvArg' = d
  /\ regHist' = [regHist EXCEPT ![d] = FALSE]
  /\ wst' = [wst EXCEPT ![d].rem = @ - 1]
  /\ UNCHANGED <<made, srvOk, watched, mt, checkTime, pollPc, listing, maxTime, cur, curM,
                 pollCh, lastHas>>
  /\ UNCHANGED <<tokVars, pipeVars, watchVars, acVars, bootVars, evalVars, gateVars>>

\* delete(w.watched, name)
ServeRemove ==
  /\ srvPc = "remove"
  /\ watched' = watched \ {srvArg}
  /\ srvPc' = "select"
  /\ UNCHANGED <<made, srvArg, srvOk, mt, checkTime, pollPc, listing, maxTime, cur, curM,
                 pollCh, wst, regHist, lastHas>>
  /\ UNCHANGED <<tokVars, pipeVars, watchVars, acVars, bootVars, evalVars, gateVars>>

\* A file arrives in the subdirectory of entry e: its modification time moves on.
EnvTouch(e) ==
  /\ mt[e] < MaxTick
  /\ mt' = [mt EXCEPT ![e] = @ + 1]
  /\ UNCHANGED <<made, srvPc, srvArg, srvOk, watched, checkTime, pollPc, listing, maxTime,
                 cur, curM, pollCh, wst, regHist, lastHas>>
  /\ UNCHANGED <<tokVars, pipeVars, watchVars, acVars, bootVars, evalVars, gateVars>>

WatcherEnds == \E d \in Subdirs : WatcherFinish(d)
RemoveMeets == \E d \in Subdirs : RemoveSend(d)
RegNext ==
  \/ ServeMake
  \/ PollRound
  \/ ScanEntry
  \/ ScanDone
  \/ HasSend
  \/ ServeLookup
  \/ HasReturn
  \/ PutSend
  \/ ServePut
  \/ Spawn
  \/ WatcherEnds
  \/ RemoveMeets
  \/ ServeRemove
  \/ \E e \in Entries : EnvTouch(e)

SpecReg == RegInit /\ [][RegNext]_vars

\* Every goroutine that can take a step of its own takes it (weak fairness
\* of the Go scheduler); a sender that is ready again and again is
\* eventually picked, because select chooses at random among its ready
\* cases (strong fairness of the meetings). How long a watcher goroutine
\* takes before it calls Remove is not bounded.
ServeStep == ServeMake \/ ServeLookup \/ ServePut \/ ServeRemove
PollStep == PollRound \/ ScanEntry \/ ScanDone \/ Spawn
FairSpecReg ==
  /\ SpecReg
  /\ WF_vars(ServeStep) /\ WF_vars(PollStep) /\ WF_vars(HasReturn)
  /\ SF_vars(HasSend) /\ SF_vars(PutSend) /\ SF_vars(RemoveMeets)

(***************************************************************************)
(* Claims about the group tracker                                          *)
(***************************************************************************)
GroupId == Join(IdG, "_")
RunsOf(id) == {i \in 1..Len(runs) : runs[i].id = id}
SeedKeys ==
  {<<"A">>, <<"A">> \o NameSuffix, <<"B">>, <<"B">> \o NameSuffix,
   KeyId, KeyVersion, KeyOutputDir}
Exists(f) == f \in DOMAIN fs /\ fs[f] # NoFile
BornAfterLaunch(f) == f \in DOMAIN born /\ born[f] > launchTime
\* Two walks have started since the tree last changed and the second is over.
QuietInterval == quiet = 2 /\ pending = {}

\* C1: Process is invoked at most once for an id, over any number of polling
\* rounds; a group that was claimed but skipped as stale has no invocation at
\* all, and one whose run failed or was rejected by the gate keeps its single one.
C1_DispatchedAtMostOnce ==
  /\ \A id \in DOMAIN found : Cardinality(RunsOf(id)) <= 1
  /\ \A id \in ready : atClaim[id].grp.LastModified <= launchTime => RunsOf(id) = {}

\* A claimed group whose pipeline run failed, whose files are still there, has
\* been walked over again after the claim, without any change to the tracker.
C1_Witness ==
  /\ GroupId \in ready
  /\ \E i \in RunsOf(GroupId) : runs[i].night /\ runs[i].err = "exit"
  /\ quiet >= 1 /\ pending = {} /\ fresh = {}
  /\ \E n \in DOMAIN found[GroupId].Files : Exists(n)

\* C2: a group's RequiredFound never decreases and never exceeds the number of
\* required prefixes.
C2_FoundCountBounded ==
  [][\A id \in DOMAIN found' :
       /\ found'[id].RequiredFound <= Len(required)
       /\ id \in DOMAIN found => found'[id].RequiredFound >= found[id].RequiredFound]_vars

\* C3: a claimed group holds, for every required prefix, a tracked file of that
\* kind.
C3_ClaimedGroupComplete ==
  \A id \in ready :
    \A i \in 1..Len(required) :
      \E n \in DOMAIN found[id].Files : isRequired(n).prefix = required[i]

\* C4: a group is claimed only with RequiredFound equal to the required count and
\* with every record that the claiming check compares made in an earlier round.
C4_ClaimComparesEarlierRound ==
  \A id \in DOMAIN atClaim :
    /\ atClaim[id].grp.RequiredFound = Len(required)
    /\ atClaim[id].fresh = {}

\* C5: when every stat succeeds, AnyChanged answers true exactly when some
\* file's live size or live mtime differs from its record.
C5_AnyChangedIffDiffers ==
  (acRes # "none" /\ \A n \in DOMAIN acLive : acLive[n] # NoFile)
    => (acRes = "changed"
          <=> \E n \in DOMAIN acGroup :
                \/ acLive[n].size # acGroup[n].Size
                \/ acLive[n].mtime # acGroup[n].LastModified)

\* C6 (as the code has it): with required = A, B and a tree of
\* A_g_1_2_3_x.h5 and B_g_1_2_3_x.h5, both created with an mtime after
\* launchTime and both still there: once two walks have started since the last
\* change of the tree and the second is over, the group is claimed and Process
\* has been invoked exactly once for it; if the night-data gate passed, the
\* pipeline was started with a context of exactly A, A_Name, B, B_Name, Id,
\* Version and OutputDir. With a tree of A_1.h5 and B_1.h5 nothing is ever
\* tracked and nothing is run.
C6_EndToEnd ==
  /\ (/\ DOMAIN fs = {FA, FB}
      /\ Exists(FA) /\ Exists(FB)
      /\ BornAfterLaunch(FA) /\ BornAfterLaunch(FB)
      /\ QuietInterval)
       => /\ GroupId \in ready
          /\ Cardinality(RunsOf(GroupId)) = 1
          /\ \A i \in RunsOf(GroupId) : runs[i].night => DOMAIN runs[i].seed = SeedKeys
  /\ DOMAIN fs = {SA, SB} => found = EmptyMap /\ ready = {} /\ runs = <<>>

\* Both files arrived after launch and were never written again; two quiet
\* walks later the one pipeline run has been started and has succeeded.
C6_Witness ==
  /\ DOMAIN fs = {FA, FB}
  /\ Exists(FA) /\ Exists(FB)
  /\ BornAfterLaunch(FA) /\ BornAfterLaunch(FB)
  /\ writes = 0
  /\ QuietInterval
  /\ Len(runs) = 1 /\ runs[1].night /\ runs[1].err = "nil"
  /\ DOMAIN runs[1].seed = SeedKeys

\* C6 as stated: after A_1.h5 and B_1.h5, modified after launchTime, have been
\* left alone for a full poll interval, exactly one pipeline run has been started.
C6_ShortNamesRun ==
  (/\ DOMAIN fs = {SA, SB}
   /\ Exists(SA) /\ Exists(SB)
   /\ BornAfterLaunch(SA) /\ BornAfterLaunch(SB)
   /\ QuietInterval)
    => Len(runs) = 1

\* C13: the seed context of every pipeline run holds Id, Version, OutputDir
\* and, for every required prefix P, P as the full path and P_Name as the name
\* without extension of a file of the group whose matched prefix is P.
C13_SeedHasEveryRequiredKind ==
  \A i \in 1..Len(runs) :
    runs[i].night =>
      /\ {KeyId, KeyVersion, KeyOutputDir} \subseteq DOMAIN runs[i].seed
      /\ \A j \in 1..Len(required) :
           /\ required[j] \in DOMAIN runs[i].seed
           /\ required[j] \o NameSuffix \in DOMAIN runs[i].seed
           /\ \E n \in DOMAIN atClaim[runs[i].id].grp.Files :
                /\ isRequired(n).prefix = required[j]
                /\ runs[i].seed[required[j]] = StrV(FullPath(n))
                /\ runs[i].seed[required[j] \o NameSuffix] = StrV(TrimSuffix(n, Ext(n)))

\* C14: whenever Process starts for a group, the group's id is already in the
\* ready set, and an id enters the ready set only while no Process call for it
\* has started.
C14_ClaimBeforeDispatch ==
  [][/\ \A i \in 1..Len(runs') : runs'[i].claimed /\ runs'[i].id \in ready'
     /\ \A id \in ready' \ ready : RunsOf(id) = {}]_vars

\* A group has been claimed and dispatched.
C14_Witness ==
  /\ Len(runs) = 1
  /\ runs[1].claimed
  /\ runs[1].id \in ready
  /\ atClaim[runs[1].id].grp.LastModified > launchTime

Visited(f) == f \notin pending' /\ fs[f] # NoFile /\ NextOfWalk(f, pending)
\* What makes the callback ignore f.
IgnoredFile(f) ==
  \/ Ext(FullPath(f)) # H5
  \/ \A i \in 1..Len(required) : ~HasPrefix(f, required[i])
  \/ Len(Split(f, "_")) < 6
  \/ Join(SubSeq(Split(f, "_"), 2, 5), "_") \in ready

\* C19: the visit of a file with another extension than .h5, with no required
\* prefix, with fewer than 6 underscore-separated tokens or with an id that is
\* in the ready set changes neither the found map (no group's files, count or
\* latest modification time) nor the ready set, and starts no run.
C19_IgnoredVisitChangesNothing ==
  [][\A f \in pending :
       (Visited(f) /\ IgnoredFile(f)) => found' = found /\ ready' = ready /\ runs' = runs]_vars

\* The group is claimed; the current walk has passed its file A_g_1_2_3_x.h5,
\* which has changed since the claim, and has recorded nothing.
C19_Witness ==
  /\ GroupId \in ready
  /\ FA \in DOMAIN found[GroupId].Files
  /\ fs[FA] # NoFile
  /\ FileChanged(found[GroupId].Files[FA], fs[FA])
  /\ FB \in pending /\ FA \notin pending
  /\ fresh = {}

\* C20: a group is opened for an unseen id only by a file whose modification
\* time is strictly after launchTime, and so every claimed group's latest
\* modification time is strictly after launchTime.
C20_GroupOpenedOnlyAfterLaunch ==
  [][/\ \A id \in DOMAIN found' \ DOMAIN found :
          \A f \in pending : Visited(f) => fs[f].mtime > launchTime
     /\ \A id \in ready' : atClaim'[id].grp.LastModified > launchTime]_vars

\* The visit of f runs the stability check of group id while the stat of one
\* of the group's tracked files fails.
CheckedWithStatError(f, id) ==
  /\ Visited(f) /\ ~IgnoredFile(f)
  /\ getId(f).id = id
  /\ found[id].RequiredFound = Len(required)
  /\ \E n \in DOMAIN found[id].Files : fs[n] = NoFile

\* C21: when the stat of a tracked file fails during a group's stability
\* check, that check neither claims nor dispatches the group, the group stays
\* in the found map with its found-count unchanged, and so the check is run
\* again on the next visit of one of the group's files.
C21_StatErrorLeavesGroupFound ==
  [][\A f \in pending : \A id \in DOMAIN found :
       CheckedWithStatError(f, id) =>
         /\ ready' = ready /\ runs' = runs
         /\ id \in DOMAIN found'
         /\ found'[id].RequiredFound = found[id].RequiredFound
         /\ found'[id].RequiredFound = Len(required)]_vars

\* The part of C21 that the callback keeps: no claim and no run on a check
\* that met a stat error, and the group stays in the found map.
C21_StatErrorNeverClaims ==
  [][\A f \in pending : \A id \in DOMAIN found :
       CheckedWithStatError(f, id) =>
         ready' = ready /\ runs' = runs /\ id \in DOMAIN found']_vars

\* The .h5 files of the scenarios that have a required prefix and the id
\* GroupId, and those of them that are in the watched tree.
IdFileNames ==
  {f \in UNION Scenarios : Ext(FullPath(f)) = H5 /\ isRequired(f).ok
                             /\ ~getId(f).err /\ getId(f).id = GroupId}
IdFiles == IdFileNames \cap DOMAIN fs
\* The files of the id that have appeared are all present, were created and
\* are now newer than launchTime, cover every required prefix, and the tree
\* has not changed since a round began.
IdFilesSettled ==
  /\ \A f \in IdFiles \cap DOMAIN born :
       fs[f] # NoFile /\ born[f] > launchTime /\ fs[f].mtime > launchTime
  /\ \A i \in 1..Len(required) :
       \E f \in IdFiles \cap DOMAIN born : HasPrefix(f, required[i])
  /\ quiet # 0
Dispatched(id) == id \in ready /\ \E i \in RunsOf(id) : runs[i].claimed

\* C23: if from some round on the files of the id stay settled (well-formed
\* names, newer than launchTime, every required prefix covered, present, no
\* more change of size or mtime), then under fair polling the group is
\* eventually claimed and dispatched, however many files share the id.
C23_SettledGroupIsClaimed == <>[]IdFilesSettled => <>Dispatched(GroupId)

\* The same for a group that never holds more names than len(required).
C23_SettledPairIsClaimed ==
  <>[](IdFilesSettled /\ Cardinality(IdFiles \cap DOMAIN born) <= Len(required))
    => <>Dispatched(GroupId)

(***************************************************************************)
(* Claims about the pipeline engine (checked under SpecPipe)               *)
(***************************************************************************)
\* The shared context as the step after entered[i] sees it (or as it is now).
PostOf(i) == IF i < Len(entered) THEN entered[i + 1].pre ELSE ctx
EvalSucceeded(e) == e.err # "eval"

\* C7: partial context leakage. After Step.EvalVariables succeeds, every key
\* that was in the shared context before the step holds the value of the
\* step-local copy, in which the step's variables are set (so a redefinition of
\* a pre-existing key is what later steps see); the shared context's key set is
\* unchanged; a step variable whose name was not in the shared context is in
\* the copy the step's command is rendered against and is absent from the
\* context of later steps.
C7_PartialContextLeakage ==
  \A i \in 1..Len(entered) :
    LET e == entered[i]
        s == pl.Steps[e.idx]
        post == PostOf(i)
    IN EvalSucceeded(e) =>
         /\ DOMAIN post = DOMAIN e.pre
         /\ \A k \in DOMAIN e.pre : post[k] = e.nctx[k]
         /\ \A j \in 1..Len(s.Variables) :
              LET n == s.Variables[j].Name IN
                /\ n \in DOMAIN e.nctx
                /\ (~s.Variables[j].Value.str
                      /\ \A j2 \in (j + 1)..Len(s.Variables) : s.Variables[j2].Name # n)
                     => e.nctx[n] = s.Variables[j].Value.val
                /\ n \notin DOMAIN e.pre => n \notin DOMAIN post
         /\ e.spawned =>
              LET split == Tokenize(Render(s.Command, e.nctx).out) IN
                e.cmd = CmdOf(split) /\ e.args = ArgsOf(split)

\* C7's case: a step redefined a pre-existing key and declared a new one, its
\* EvalVariables succeeded, and a later step has run on the shared context.
C7_Witness ==
  \E i \in 1..Len(entered) :
    /\ i < Len(entered)
    /\ EvalSucceeded(entered[i])
    /\ \E k \in DOMAIN entered[i].pre : PostOf(i)[k] # entered[i].pre[k]
    /\ \E n \in DOMAIN entered[i].nctx : n \notin DOMAIN PostOf(i)

\* C8: Pipeline.Exec runs the steps in declared order and stops at the first
\* failure: a step that returned an error is the last one entered and Exec
\* returns its error; when pipeline-level variable evaluation fails no step is
\* entered; Exec returns nil only after every step ran without error.
C8_HaltsOnFirstFailure ==
  /\ \A i \in 1..Len(entered) : entered[i].idx = i
  /\ \A i \in 1..Len(entered) :
       entered[i].err # "nil" =>
         i = Len(entered) /\ ppc = "done" /\ perr = entered[i].err
  /\ PipelineEvalVariables(pl.Variables, SeedCtx).err =>
       entered = <<>> /\ (ppc = "done" => perr = "eval")
  /\ (ppc = "done" /\ perr = "nil") =>
       /\ Len(entered) = Len(pl.Steps)
       /\ \A i \in 1..Len(entered) : entered[i].err = "nil"

\* C8's case: [S1(ok), S2(nonzero exit), S3]: Exec is over and S3 never ran.
C8_Witness ==
  /\ ppc = "done"
  /\ Len(pl.Steps) = 3
  /\ Len(entered) = 2
  /\ entered[1].err = "nil"
  /\ entered[2].err = "exit"
  /\ perr = "exit"

(***************************************************************************)
(* Claims about the command tokenizer (checked under SpecTok)               *)
(***************************************************************************)
\* C9: a closing quote (' in IN_SQ, " in IN_DQ) ends the token and returns
\* the lexer to DEFAULT, so that cmd -o "a b" 'c d' e\ f tokenizes to
\* ["cmd", "-o", "a b", "c d", "e f"].
C9_ClosingQuoteReturnsToDefault ==
  /\ closedQuote => lex.state = DEFAULT
  /\ (tokPc = "done" /\ tokIn = ExampleCmd) => lex.split = ExampleTokens

\* C10: a token ended by a closing quote is emitted even when it is empty:
\* the input '' (or "") yields exactly one empty-string argument.
C10_EmptyQuotedTokenEmitted ==
  (tokPc = "done" /\ tokIn \in {<<"'", "'">>, <<"\"", "\"">>}) => lex.split = << <<>> >>

\* C16: a backslash in DEFAULT escapes exactly one character: the rune read in
\* ESCAPED is accumulated and the lexer is back in DEFAULT, so that \a a
\* tokenizes to ["a", "a"].
C16_EscapeCoversOneRune ==
  [][/\ (/\ tokPos' = tokPos + 1
          /\ lex.state = ESCAPED
          /\ tokIn[tokPos'] \notin {BadRune, NulRune})
           => /\ lex'.acc = Append(lex.acc, tokIn[tokPos'])
              /\ lex'.state = DEFAULT
     /\ (tokPc' = "done" /\ tokIn = <<"\\", "a", " ", "a">>)
           => lex'.split = << <<"a">>, <<"a">> >>]_vars

\* The step-local context as C17 describes it: each variable evaluated against
\* the context that already holds the earlier variables of the step.
RECURSIVE ChainedVars(_, _)
ChainedVars(vs, c) ==
  IF vs = <<>> THEN c
  ELSE ChainedVars(Tail(vs), Put(c, Head(vs).Name, Eval(Head(vs), c).val))

\* C17: within a step, each local variable's template is rendered against the
\* inherited context extended by the earlier local variables of the step, so
\* with Y: "7", Z: "((.Y))" the step's context has Z = 7.
C17_LaterVarsSeeEarlierOnes ==
  \A i \in 1..Len(entered) :
    EvalSucceeded(entered[i]) =>
      /\ entered[i].nctx = ChainedVars(pl.Steps[entered[i].idx].Variables, entered[i].pre)
      /\ pl.Steps[entered[i].idx] = SChain => entered[i].nctx[<<"Z">>] = IntV(7)

\* C18: at the end of the text a non-empty accumulator becomes the last token,
\* in whatever state the lexer is; nothing else changes the tokens; "abc gives
\* the one token abc, and with no token the executable name is empty.
C18_EndOfInputFlushes ==
  [][(tokPc # "done" /\ tokPc' = "done") =>
       /\ lex.acc # <<>> => lex'.split = Append(lex.split, lex.acc)
       /\ lex.acc = <<>> => lex'.split = lex.split
       /\ lex'.acc = <<>>
       /\ tokIn = QuoteAbc => lex'.split = << <<"a", "b", "c">> >>
       /\ lex'.split = <<>> => CmdOf(lex'.split) = <<>> /\ ArgsOf(lex'.split) = <<>>]_vars

\* The text "abc has ended inside the double quote and left the token abc.
C18_Witness ==
  /\ tokPc = "done"
  /\ tokIn = QuoteAbc
  /\ lex.state = IN_DQ
  /\ lex.split = << <<"a", "b", "c">> >>

(***************************************************************************)
(* Claims about startup                                                    *)
(***************************************************************************)
\* C11: the process reaches the watch loop only with a pipeline whose Prepare
\* returned no error.
C11_PrepareErrorAbortsStartup == mainPc = "watching" => prepErr = "nil"

(***************************************************************************)
(* Claims about Variable.Eval                                              *)
(***************************************************************************)
EvalRenderedOut == Render(evVar.Value.parts, ctx)
EvalReturned == evRes[1]
EvalOf(text) ==
  evVar.Value.str /\ ~EvalRenderedOut.err /\ EvalRenderedOut.out = text

\* C12: Eval returns a non-string raw value unchanged; the rendered text of a
\* string value becomes a boolean whenever the boolean parser accepts it (also
\* when the integer parser would), else an integer when the 64-bit integer
\* parser accepts it, else a float when the float parser accepts it, else the
\* rendered string itself; true, 42, 3.14 and hello give boolean true, integer
\* 42, float 3.14 and the string hello.
C12_EvalCoercion ==
  evRes # <<>> =>
    /\ ~evVar.Value.str => EvalReturned = [err |-> FALSE, val |-> evVar.Value.val]
    /\ (evVar.Value.str /\ ~EvalRenderedOut.err) =>
         /\ ~EvalReturned.err
         /\ IsBoolText(EvalRenderedOut.out) =>
              EvalReturned.val = BoolV(EvalRenderedOut.out \in BoolTrueTexts)
         /\ EvalReturned.val.t = "bool" => IsBoolText(EvalRenderedOut.out)
         /\ EvalReturned.val.t = "int" <=>
              (~IsBoolText(EvalRenderedOut.out) /\ IsIntText(EvalRenderedOut.out))
         /\ EvalReturned.val.t = "int" => EvalReturned.val.v = IntOf(EvalRenderedOut.out)
         /\ EvalReturned.val.t = "float" <=>
              /\ ~IsBoolText(EvalRenderedOut.out)
              /\ ~IsIntText(EvalRenderedOut.out)
              /\ IsFloatText(EvalRenderedOut.out)
         /\ EvalReturned.val.t \in {"float", "str"} => EvalReturned.val.v = EvalRenderedOut.out
    /\ EvalOf(<<"t", "r", "u", "e">>) => EvalReturned.val = BoolV(TRUE)
    /\ EvalOf(<<"4", "2">>) => EvalReturned.val = IntV(42)
    /\ EvalOf(<<"3", ".", "1", "4">>) => EvalReturned.val = FloatV(<<"3", ".", "1", "4">>)
    /\ EvalOf(<<"h", "e", "l", "l", "o">>) => EvalReturned.val = StrV(<<"h", "e", "l", "l", "o">>)

\* The text 1, rendered from ((.X)) with X = 1, is accepted by the boolean and
\* by the integer parser, and Eval has returned the boolean true.
C12_Witness ==
  /\ evRes # <<>>
  /\ evVar.Value.str
  /\ Len(evVar.Value.parts) = 2
  /\ EvalOf(<<"1">>)
  /\ IsIntText(EvalRenderedOut.out)
  /\ EvalReturned.val = BoolV(TRUE)


(***************************************************************************)
(* Claims about the quality gate (checked under SpecGate)                  *)
(***************************************************************************)
\* The qualification check itself failed: the dump tool, the compilation of
\* the query, or the parse of the dump.
ProbeFailed(pr) == pr.dump # "ok" \/ pr.compile # "ok" \/ pr.parse # "ok"
\* The check ran to its end and found no indicator node other than "0".
ReportsNoNight(pr) ==
  /\ ~ProbeFailed(pr)
  /\ \A i \in 1..Len(pr.nodes) : TrimSpace(pr.nodes[i]) = <<"0">>
\* The call of Process went on to pipeline.Exec.
PipelineRan(r) == r.err # "none" /\ KeyId \in DOMAIN r.seed

\* C22: the quality gate is fail-open. When the check fails (dump tool, query
\* compilation, parse of the output) the claimed group is treated as
\* qualifying and its pipeline is run; the pipeline is skipped only when the
\* check completes without error and reports that the file does not qualify.
C22_GateFailOpen ==
  \A i \in 1..Len(prRun) :
    /\ ProbeFailed(prProbe) => prRun[i].night /\ PipelineRan(prRun[i])
    /\ ~PipelineRan(prRun[i]) => ReportsNoNight(prProbe)

\* h5dump failed on the group's file and the pipeline was run all the same.
C22_Witness ==
  /\ prRun # <<>>
  /\ prProbe.dump = "fail"
  /\ prRun[1].night /\ prRun[1].err = "nil"
  /\ DOMAIN prGroup.Files = {FA, FB}


PollInHas == pollPc \in {"has_send", "has_recv"}
PollInPut == pollPc = "put_send"
InRemove(d) == wst[d].rem + wst[d].stuck > 0

\* C25: under fair scheduling every Put, Remove and Has call eventually
\* returns, whatever the interleaving of the polling loop with the start of
\* Serve, which creates the request channels.
C25_RegistryCallsReturn ==
  /\ PollInHas ~> ~PollInHas
  /\ PollInPut ~> ~PollInPut
  /\ \A d \in Subdirs : InRemove(d) ~> ~InRemove(d)

\* The same for the calls whose channel operand was read after Serve's make.
C25_CallsOnMadeChannelsReturn ==
  /\ (PollInHas /\ pollCh # "nil") ~> ~PollInHas
  /\ (PollInPut /\ pollCh # "nil") ~> ~PollInPut
  /\ \A d \in Subdirs : (wst[d].rem > 0) ~> (wst[d].rem = 0)

====
